---- MODULE Spec2Model ----
(***************************************************************************)
(* Chunked transcription and topic segmentation engine of radio-ia         *)
(* (transcribe-chunks Lambda, src/unnamed/part_000).                       *)
(*                                                                         *)
(* JavaScript numbers are IEEE-754 doubles.  The success gate divides and  *)
(* subtracts doubles, so those operations are modelled bit by bit with     *)
(* round-to-nearest-even at 53 significant bits.                           *)
(***************************************************************************)
EXTENDS Integers, Sequences, FiniteSets, TLC

VARIABLES
    fileSize,              \* size in bytes of the local audio file
    chunkSize,             \* chunkConfig.chunkSize
    concurrentRequests,    \* chunkConfig.concurrentRequests
    phase,                 \* position of getDetailedTranscriptionResults
    chunks,                \* planned chunks, in order
    batchStart,            \* loop variable i of the batch loop
    tpc,                   \* per chunk: position of its batch promise
    retryCount,            \* per chunk: retryCount of the running call
    backoffTime,           \* per chunk: delay of the running sleep
    caught,                \* per chunk: error of the last failed request, until the next
    settled,               \* per chunk: entry of the batch's allSettled results
    attempts,              \* per chunk of the running batch: requests sent
    sleeps,                \* per chunk of the running batch: sleeps started
    outcome,               \* per chunk: how its promise ended, once collected
    transcriptionResults,  \* results array, indexed by chunk index
    failedChunks,          \* chunks that failed after retries
    gate,                  \* outcome of the success gate
    fnIn,                  \* input of a function applied on its own
    fnOut,                 \* its output
    enableFallback,        \* TOPIC_ANALYSIS_CONFIG.enableFallback
    geminiClient,          \* TRUE once the module's geminiClient is set
    returned,              \* the list getDetailedTranscriptionResults returned
    allSegments,           \* segments on the timeline of the whole audio
    totalOffset,           \* running offset of the reconciliation, at its end
    timeline,              \* per result: totalOffset before and after it
    topicCount,            \* what getTopicCountForDuration returned
    requests,              \* segmentation requests sent
    topicAnalysis,         \* topicAnalysis of transcribeAudioWithTopics
    analysisError,         \* analysisError of transcribeAudioWithTopics
    enhancedResults,       \* what transcribeAudioWithTopics returned
    uploads,               \* objects put in the output bucket, in order
    handlerOut,            \* how the handler ended: its result or its error
    openaiClient,          \* TRUE once the module's openaiClient is set
    invocation,            \* per invocation of the handler in the process: its position
    constructed,           \* per client: how many times it was constructed
    keyFetches,            \* per client: how many times its key was asked for
    clientCalls,           \* the requests made through the two clients
    audioFile,             \* the local audio file of the handler: present or deleted
    wf,                    \* the execution of the state machine
    table,                 \* the items of the content table, by contentId
    save                   \* per call of saveToDynamoDB: its position

topicVars == <<enableFallback, geminiClient, returned, allSegments, totalOffset,
               timeline, topicCount, requests, topicAnalysis, analysisError,
               enhancedResults, uploads, handlerOut>>

\* the clients of the process and the invocations that share them
processVars == <<openaiClient, invocation, constructed, keyFetches, clientCalls>>

\* the workflow and the content table
flowVars == <<wf, table, save>>

vars == <<fileSize, chunkSize, concurrentRequests, phase, chunks, batchStart,
          tpc, retryCount, backoffTime, caught, settled, attempts, sleeps, outcome,
          transcriptionResults, failedChunks, gate, fnIn, fnOut, topicVars, processVars, audioFile, flowVars>>

jobVars == <<fileSize, chunkSize, concurrentRequests, phase, chunks, batchStart,
             tpc, retryCount, backoffTime, caught, settled, attempts, sleeps, outcome,
             transcriptionResults, failedChunks, gate>>

\* what the steps after the gate leave alone
batchVars == <<fileSize, chunkSize, concurrentRequests, chunks, batchStart,
               tpc, retryCount, backoffTime, caught, settled, attempts, sleeps, outcome,
               transcriptionResults, failedChunks, gate>>

None == [none |-> TRUE]

Min(a, b) == IF a <= b THEN a ELSE b

RECURSIVE Pow2(_)
Pow2(n) == IF n = 0 THEN 1 ELSE 2 * Pow2(n - 1)

(***************************************************************************)
(* Bounds of the model.                                                    *)
(***************************************************************************)
MaxGateChunks == 22   \* chunk counts given to the gate on its own
MaxPlanBytes == 14    \* file sizes given to the planner on its own
MaxPlanChunk == 8     \* chunk sizes given to the planner on its own
MaxFullChunks == 2    \* full-size chunks of a job's audio file
MaxConcurrent == 2    \* concurrentRequests of a job
MaxTopicChunks == 5   \* chunk counts given to the steps after the gate on their own
MaxSpread == 10       \* ticks around a boundary given to getTopicCountForDuration
Tick == 2             \* ticks to the second
MaxInvocations == 2   \* invocations of the handler in one process
MaxConfigChunks == 6  \* chunk sizes an audio file given to the configuration spans
MaxCalls == 2         \* calls of saveToDynamoDB at a time
MaxTaken == 2         \* positions that may be taken before the calls

(***************************************************************************)
(* IEEE-754 doubles in [0, 2).  A double is the sequence of its binary     *)
(* digits b_0 . b_1 b_2 ... (b_i has weight 2^-i); the empty sequence is   *)
(* NaN.  The sequence is DblLen digits long, and longer when the SigBits   *)
(* significant digits of a small value end after that: then it ends with   *)
(* the last digit that is 1, so that a value has one sequence.             *)
(***************************************************************************)
SigBits == 53
DblLen == 64
\* digits a multiplication takes at a time
BlockLen == 16
\* digits a division takes at a time
QuotBlock == 8

DNaN == << >>
IsNaN(x) == x = DNaN

Max(a, b) == IF a >= b THEN a ELSE b

RECURSIVE Zeros(_)
Zeros(n) == IF n <= 0 THEN << >> ELSE <<0>> \o Zeros(n - 1)

\* the binary digits of the integer n, w of them, the last of weight 2^0
RECURSIVE IntDigits(_, _)
IntDigits(n, w) == IF w = 0 THEN << >> ELSE IntDigits(n \div 2, w - 1) \o <<n % 2>>

\* the first n digits after the point of r / b, for 0 <= r < b, QuotBlock
\* digits at a time, and whether digits remain after them
RECURSIVE FractionBits(_, _, _)
FractionBits(r, b, n) ==
    IF n <= 0 THEN [digits |-> << >>, inexact |-> r # 0]
    ELSE LET k == Min(n, QuotBlock)
             v == r * Pow2(k)
             low == FractionBits(v % b, b, n - k)
         IN  [digits |-> IntDigits(v \div b, k) \o low.digits, inexact |-> low.inexact]

\* position of the leading 1 of the digits of a / b, for 0 < a <= b
RECURSIVE QuotientLead(_, _)
QuotientLead(a, b) == IF a >= b THEN 1 ELSE 1 + QuotientLead(2 * a, b)

\* position of the leading 1 of a digit sequence, 0 if there is none
LeadPos(x) ==
    IF \E i \in 1..Len(x) : x[i] = 1
    THEN CHOOSE i \in 1..Len(x) : x[i] = 1 /\ \A j \in 1..(i - 1) : x[j] = 0
    ELSE 0

\* position of the last 1 of a digit sequence, 0 if there is none
LastOne(x) ==
    IF \E i \in 1..Len(x) : x[i] = 1
    THEN CHOOSE i \in 1..Len(x) : x[i] = 1 /\ \A j \in (i + 1)..Len(x) : x[j] = 0
    ELSE 0

\* the sequence of a value: DblLen digits, or as many as end with its last 1
Canon(x) == SubSeq(x \o Zeros(DblLen - Len(x)), 1, Max(DblLen, LastOne(x)))

\* x with zeros after it, n digits in all
Pad(x, n) == x \o Zeros(n - Len(x))

\* x + 2^-(n-1): add one at digit n, carrying towards the front; a carry out
\* of the front, which has no digit of its own, makes the first digit 2
RECURSIVE IncAt(_, _)
IncAt(x, n) ==
    IF n = 0 THEN [x EXCEPT ![1] = 2]
    ELSE IF x[n] = 0 THEN [x EXCEPT ![n] = 1]
         ELSE IncAt([x EXCEPT ![n] = 0], n - 1)

\* round-to-nearest, ties-to-even, of the exact value x (+ something below
\* its last digit when sticky) to SigBits significant digits.  When x has
\* no digit after its SigBits significant ones and nothing is below it, x is
\* the double; a sticky x holds the digit after them.  The result has the
\* digits of x; its first digit is 2 when the rounding carries out of it
RoundD(x, sticky) ==
    LET p == LeadPos(x)
        lsb == p + SigBits - 1
        grd == lsb + 1
    IN  IF p = 0 \/ grd > Len(x) THEN x
        ELSE LET rest == sticky \/ \E j \in (grd + 1)..Len(x) : x[j] = 1
                 kept == SubSeq(x, 1, lsb) \o Zeros(Len(x) - lsb)
                 up == x[grd] = 1 /\ (rest \/ x[lsb] = 1)
             IN  IF up THEN IncAt(kept, lsb) ELSE kept

\* a / b for integers 0 <= a <= b; 0/0 is NaN.  The quotient is taken as far
\* as the digit after its SigBits significant ones
DivD(a, b) ==
    IF b = 0 THEN DNaN
    ELSE IF a = 0 THEN Zeros(DblLen)
    ELSE LET n == Max(DblLen, QuotientLead(a, b) + SigBits)
             fraction == FractionBits(a % b, b, n - 1)
         IN  Canon(RoundD(<<a \div b>> \o fraction.digits, fraction.inexact))

\* exact x - y of digit sequences, x >= y (borrow towards the front)
RECURSIVE SubBits(_, _, _, _)
SubBits(x, y, n, borrow) ==
    IF n = 0 THEN x
    ELSE LET d == x[n] - y[n] - borrow
         IN  SubBits([x EXCEPT ![n] = IF d < 0 THEN d + 2 ELSE d], y, n - 1,
                     IF d < 0 THEN 1 ELSE 0)

\* x < y on digit sequences
LessBits(x, y) ==
    LET n == Max(Len(x), Len(y))
        a == Pad(x, n)
        b == Pad(y, n)
    IN  \E i \in 1..n :
            /\ a[i] < b[i]
            /\ \A j \in 1..(i - 1) : a[j] = b[j]

\* x < y; false when either is NaN
LessD(x, y) == ~IsNaN(x) /\ ~IsNaN(y) /\ LessBits(x, y)

\* x - y for x >= y
SubD(x, y) ==
    IF IsNaN(x) \/ IsNaN(y) THEN DNaN
    ELSE LET n == Max(Len(x), Len(y))
         IN  Canon(RoundD(SubBits(Pad(x, n), Pad(y, n), n, 0), FALSE))

\* Math.max(x, y)
MaxD(x, y) ==
    IF IsNaN(x) \/ IsNaN(y) THEN DNaN
    ELSE IF LessBits(x, y) THEN y ELSE x

DOne == <<1>> \o Zeros(DblLen - 1)
\* the literals 0.8, 0.7 and 0.6: the doubles nearest to 4/5, 7/10 and 3/5
D08 == DivD(4, 5)
D07 == DivD(7, 10)
D06 == DivD(3, 5)

\* the integer a digit sequence denotes, its last digit of weight 2^0
RECURSIVE IntValue(_)
IntValue(x) == IF x = << >> THEN 0 ELSE 2 * IntValue(SubSeq(x, 1, Len(x) - 1)) + x[Len(x)]

\* exact t * x from digit n of x on, BlockLen digits at a time: the digits
\* of those positions and the carry out of digit n
RECURSIVE MulBits(_, _, _)
MulBits(x, t, n) ==
    IF n > Len(x) THEN [carry |-> 0, digits |-> << >>]
    ELSE LET m == Min(n + BlockLen - 1, Len(x))
             low == MulBits(x, t, m + 1)
             v == IntValue(SubSeq(x, n, m)) * t + low.carry
         IN  [carry |-> v \div Pow2(m - n + 1),
              digits |-> IntDigits(v, m - n + 1) \o low.digits]

\* t * x for an integer 0 <= t < 2^(BlockLen - 1): BlockLen digits of integer
\* part, then the digits after the point, rounded as a double is
MulD(t, x) ==
    IF IsNaN(x) THEN DNaN
    ELSE LET p == MulBits(x, t, 1)
             whole == IntDigits(2 * p.carry + p.digits[1], BlockLen)
                          \o SubSeq(p.digits, 2, Len(p.digits))
         IN  RoundD(whole, FALSE)

\* Math.ceil of a product MulD made
CeilD(w) ==
    IntValue(SubSeq(w, 1, BlockLen))
        + (IF \E i \in (BlockLen + 1)..Len(w) : w[i] = 1 THEN 1 ELSE 0)

(***************************************************************************)
(* SuccessGate threshold.                                                  *)
(***************************************************************************)
\* the thresholds with the bounds of the ranges taken as exclusive
calculateSuccessThreshold_Exclusive(totalChunks) ==
    IF totalChunks < 3 THEN DOne
    ELSE IF totalChunks < 5 THEN D08
    ELSE IF totalChunks < 10 THEN D07
    ELSE MaxD(D06, SubD(DOne, DivD(3, totalChunks)))

calculateSuccessThreshold(totalChunks) ==
    IF totalChunks <= 3 THEN DOne
    ELSE IF totalChunks <= 5 THEN D08
    ELSE IF totalChunks <= 10 THEN D07
    ELSE MaxD(D06, SubD(DOne, DivD(3, totalChunks)))

(***************************************************************************)
(* ChunkPlanner: the while loop that prepares the chunks.                  *)
(***************************************************************************)
RECURSIVE PlanLoop(_, _, _, _)
PlanLoop(offset, acc, size, cSize) ==
    IF offset < size
    THEN LET endByte == Min(offset + cSize, size)
         IN  PlanLoop(endByte,
                      Append(acc, [start |-> offset, end |-> endByte, index |-> Len(acc)]),
                      size, cSize)
    ELSE acc

\* the planner without the clamp of the last chunk to the file size
RECURSIVE PlanLoop_NoClamp(_, _, _, _)
PlanLoop_NoClamp(offset, acc, size, cSize) ==
    IF offset < size
    THEN PlanLoop_NoClamp(offset + cSize,
                          Append(acc, [start |-> offset, end |-> offset + cSize,
                                       index |-> Len(acc)]),
                          size, cSize)
    ELSE acc

PlanChunks_NoClamp(size, cSize) == PlanLoop_NoClamp(0, << >>, size, cSize)

PlanChunks(size, cSize) == PlanLoop(0, << >>, size, cSize)

\* chunks[k] of the code is Chunk(list, k): the list is 0-based there
Chunk(list, k) == list[k + 1]
Indices(list) == 0..(Len(list) - 1)

(***************************************************************************)
(* Transcription errors: error.status (0 when the error carries none) and  *)
(* error.headers, a map from header names to strings.  A string is the     *)
(* sequence of its characters.                                             *)
(***************************************************************************)
\* one retry more
MAX_RETRIES_More == 3 + 1

MAX_RETRIES == 3
MinChunkBytes == 4096
RateLimitDefaultMs == 2000
BackoffBaseMs == 1000

ResetHeader == "x-ratelimit-reset-requests"
NoHeaders == [h \in {} |-> << >>]
WithReset(str) == [h \in {ResetHeader} |-> str]

Err(st, hd) == [status |-> st, headers |-> hd]

Errors ==
    { Err(400, NoHeaders), Err(401, NoHeaders), Err(403, NoHeaders), Err(413, NoHeaders),
      Err(500, NoHeaders), Err(0, NoHeaders),
      Err(429, NoHeaders),
      Err(429, WithReset(<<"1", "5", "0", "0">>)),
      Err(429, WithReset(<<"1", "s">>)) }

\* payload-too-large taken for transient
IsPermanentStatus_No413(st) == st = 400 \/ st = 401 \/ st = 403

IsPermanentStatus(st) == st = 400 \/ st = 401 \/ st = 403 \/ st = 413

Digits == {"0", "1", "2", "3", "4", "5", "6", "7", "8", "9"}
DigitVal(ch) ==
    CASE ch = "0" -> 0 [] ch = "1" -> 1 [] ch = "2" -> 2 [] ch = "3" -> 3
      [] ch = "4" -> 4 [] ch = "5" -> 5 [] ch = "6" -> 6 [] ch = "7" -> 7
      [] ch = "8" -> 8 [] ch = "9" -> 9

\* value of the longest prefix of decimal digits of str, read after acc
RECURSIVE DigitPrefix(_, _)
DigitPrefix(str, acc) ==
    IF str = << >> \/ Head(str) \notin Digits THEN acc
    ELSE DigitPrefix(Tail(str), 10 * acc + DigitVal(Head(str)))

HexDigits ==
    Digits \cup {"a", "b", "c", "d", "e", "f", "A", "B", "C", "D", "E", "F"}
HexVal(ch) ==
    CASE ch \in Digits -> DigitVal(ch)
      [] ch \in {"a", "A"} -> 10 [] ch \in {"b", "B"} -> 11 [] ch \in {"c", "C"} -> 12
      [] ch \in {"d", "D"} -> 13 [] ch \in {"e", "E"} -> 14 [] ch \in {"f", "F"} -> 15

\* value of the longest prefix of hexadecimal digits of str, read after acc
RECURSIVE HexPrefix(_, _)
HexPrefix(str, acc) ==
    IF str = << >> \/ Head(str) \notin HexDigits THEN acc
    ELSE HexPrefix(Tail(str), 16 * acc + HexVal(Head(str)))

\* parseInt of a string without sign or blanks, with no radix given: after
\* "0x" or "0X" the hexadecimal digits that follow, otherwise the decimal
\* digits it starts with; NotANumber when there is none
NotANumber == 0 - 1
parseInt(str) ==
    IF Len(str) >= 2 /\ str[1] = "0" /\ str[2] \in {"x", "X"}
    THEN IF Len(str) >= 3 /\ str[3] \in HexDigits
         THEN HexPrefix(SubSeq(str, 3, Len(str)), 0)
         ELSE NotANumber
    ELSE IF str = << >> \/ Head(str) \notin Digits THEN NotANumber
    ELSE DigitPrefix(str, 0)

\* a backoff that grows by a second per retry instead of doubling
BackoffTime_Linear(error, retries) ==
    IF error.status = 429
    THEN IF ResetHeader \in DOMAIN error.headers /\ error.headers[ResetHeader] # << >>
         THEN parseInt(error.headers[ResetHeader])
         ELSE RateLimitDefaultMs
    ELSE (retries + 1) * BackoffBaseMs

\* the backoffTime the catch block computes for a transient error
BackoffTime(error, retries) ==
    IF error.status = 429
    THEN IF ResetHeader \in DOMAIN error.headers /\ error.headers[ResetHeader] # << >>
         THEN parseInt(error.headers[ResetHeader])
         ELSE RateLimitDefaultMs
    ELSE Pow2(retries) * BackoffBaseMs

(***************************************************************************)
(* Outcomes of the batch promises, as Promise.allSettled reports them.     *)
(***************************************************************************)
Null == [isNull |-> TRUE]
Pending == [status |-> "pending"]
Rejected == [status |-> "rejected"]
Fulfilled(v) == [status |-> "fulfilled", value |-> v]

\* A time is a JavaScript number of seconds; it is kept as its number of
\* ticks, Tick to the second, so that times with a fraction are among them.
Sec(n) == n * Tick

Segment(txt, s, e) == [text |-> txt, start |-> s, end |-> e]

\* transcriptions the service answers with (verbose_json): text, segments with
\* chunk-relative times, duration.  A field the answer leaves out is absent.
TranscriptionA ==
    [text |-> <<"a">>, duration |-> Sec(30),
     segments |-> <<Segment(<<"a">>, 0, Sec(5))>>]
TranscriptionB ==
    [text |-> <<"b", "c">>, duration |-> Sec(20) + 1,
     segments |-> <<Segment(<<"b">>, Sec(2), Sec(8)),
                    Segment(<<"c">>, Sec(8), Sec(20) + 1)>>]
TranscriptionC == [text |-> <<"d">>, duration |-> Sec(10)]
TranscriptionD == [text |-> << >>, segments |-> << >>]

Transcriptions == {TranscriptionA, TranscriptionB, TranscriptionC, TranscriptionD}

\* the transcription of chunk c of the audio of the job
TranscriptionOf(c) ==
    CASE c % 4 = 0 -> TranscriptionA
      [] c % 4 = 1 -> TranscriptionB
      [] c % 4 = 2 -> TranscriptionC
      [] c % 4 = 3 -> TranscriptionD

\* every result carrying index 0
SuccessResult_IndexZero(c, transcription) == [success |-> TRUE, index |-> 0] @@ transcription
\* { success: true, text, segments, duration, index }
SuccessResult(c, transcription) == [success |-> TRUE, index |-> c] @@ transcription
PermanentFailure(c, e) == [success |-> FALSE, error |-> e, index |-> c, permanent |-> TRUE]
ExhaustedFailure(c, e) == [success |-> FALSE, error |-> e, index |-> c]

\* result.value?.success and errorInfo.permanent
ValueSuccess(r) == r.status = "fulfilled" /\ r.value # Null /\ r.value.success
ValueTruthy(r) == r.status = "fulfilled" /\ r.value # Null
ValuePermanent(v) == "permanent" \in DOMAIN v /\ v.permanent

\* an empty slot of the results array
Hole == [hole |-> TRUE]

\* a slice one chunk longer
BatchOf_Wide(i, k, list) == {c \in Indices(list) : i <= c /\ c < i + k + 1}

\* chunks.slice(i, i + concurrentRequests), as chunk indices
BatchOf(i, k, list) == {c \in Indices(list) : i <= c /\ c < i + k}

\* the callbacks of batchChunks.map run up to their first await
LaunchBatch(i, k, list, pcs) ==
    [c \in Indices(list) |-> IF c \in BatchOf(i, k, list) THEN "fetching" ELSE pcs[c]]

\* a collection that gives up the batch when one of its promises rejected or
\* failed, as a fail-fast join would
RECURSIVE CollectResults_FailFast(_, _, _, _, _)
CollectResults_FailFast(results, i, batchIndex, k, acc) ==
    IF batchIndex >= k \/ i + batchIndex >= Len(chunks) THEN acc
    ELSE LET r == results[i + batchIndex]
             bad == \E c \in BatchOf(i, k, chunks) :
                        results[c].status = "rejected"
                        \/ (ValueTruthy(results[c]) /\ ~results[c].value.success)
             next ==
                 IF ValueSuccess(r) /\ ~bad
                 THEN [acc EXCEPT !.slots[r.value.index] = r.value]
                 ELSE IF ValueTruthy(r) /\ ~r.value.success /\ ~ValuePermanent(r.value)
                      THEN [acc EXCEPT !.failed = Append(@, Chunk(chunks, i + batchIndex))]
                      ELSE acc
         IN  CollectResults_FailFast(results, i, batchIndex + 1, k, next)

\* results.forEach over the batch that starts at i: the slots of
\* transcriptionResults and the failedChunks it leaves
RECURSIVE CollectResults(_, _, _, _, _)
CollectResults(results, i, batchIndex, k, acc) ==
    IF batchIndex >= k \/ i + batchIndex >= Len(chunks) THEN acc
    ELSE LET r == results[i + batchIndex]
             next ==
                 IF ValueSuccess(r)
                 THEN [acc EXCEPT !.slots[r.value.index] = r.value]
                 ELSE IF ValueTruthy(r) /\ ~ValuePermanent(r.value)
                      THEN [acc EXCEPT !.failed = Append(@, Chunk(chunks, i + batchIndex))]
                      ELSE acc
         IN  CollectResults(results, i, batchIndex + 1, k, next)

\* the error the gate throws: `Transcription failed: s/t chunks succeeded,
\* need n`, kept as its fixed text and the three numbers placed in it
GateError(s, t, n) ==
    [name |-> "Error", message |-> [chars |-> "Transcription failed"],
     successfulChunks |-> s, totalChunks |-> t, need |-> n]

\* the gate throwing also when the ratio equals the threshold
SuccessGate_AtMost(results, list) ==
    LET successfulChunks == Cardinality({c \in DOMAIN results :
                                results[c] # Hole /\ results[c].success})
        totalChunks == Len(list)
        requiredThreshold == calculateSuccessThreshold(totalChunks)
        actualThreshold == DivD(successfulChunks, totalChunks)
        failed == ~IsNaN(actualThreshold) /\ ~LessD(requiredThreshold, actualThreshold)
    IN  [failed |-> failed,
         successfulChunks |-> successfulChunks,
         totalChunks |-> totalChunks,
         requiredThreshold |-> requiredThreshold,
         actualThreshold |-> actualThreshold,
         error |-> IF failed
                   THEN GateError(successfulChunks, totalChunks,
                                  CeilD(MulD(totalChunks, requiredThreshold)))
                   ELSE None]

\* the gate: counts, thresholds and the decision to throw
SuccessGate(results, list) ==
    LET successfulChunks == Cardinality({c \in DOMAIN results :
                                results[c] # Hole /\ results[c].success})
        totalChunks == Len(list)
        requiredThreshold == calculateSuccessThreshold(totalChunks)
        actualThreshold == DivD(successfulChunks, totalChunks)
        failed == LessD(actualThreshold, requiredThreshold)
    IN  [failed |-> failed,
         successfulChunks |-> successfulChunks,
         totalChunks |-> totalChunks,
         requiredThreshold |-> requiredThreshold,
         actualThreshold |-> actualThreshold,
         error |-> IF failed
                   THEN GateError(successfulChunks, totalChunks,
                                  CeilD(MulD(totalChunks, requiredThreshold)))
                   ELSE None]

(***************************************************************************)
(* After the gate: the returned list, the reconciliation of the segments   *)
(* onto one timeline, the topic count and the segmentation answer.         *)
(***************************************************************************)
\* the results that are there, the last chunk first
RECURSIVE FilterBoolean_Reverse(_, _)
FilterBoolean_Reverse(results, c) ==
    IF c \notin DOMAIN results THEN << >>
    ELSE IF results[c] = Hole THEN FilterBoolean_Reverse(results, c + 1)
         ELSE FilterBoolean_Reverse(results, c + 1) \o <<results[c]>>

\* transcriptionResults.filter(Boolean), from slot c on
RECURSIVE FilterBoolean(_, _)
FilterBoolean(results, c) ==
    IF c \notin DOMAIN results THEN << >>
    ELSE IF results[c] = Hole THEN FilterBoolean(results, c + 1)
         ELSE <<results[c]>> \o FilterBoolean(results, c + 1)

\* the segments of one result pushed with their chunk-relative times
RECURSIVE PushSegments_ChunkRelative(_, _, _, _)
PushSegments_ChunkRelative(segments, offset, index, acc) ==
    IF segments = << >> THEN acc
    ELSE PushSegments_ChunkRelative(Tail(segments), offset, index,
                      Append(acc, [text |-> Head(segments).text,
                                   start |-> Head(segments).start,
                                   end |-> Head(segments).end,
                                   chunkIndex |-> index]))
\* the segments of one result pushed onto allSegments
RECURSIVE PushSegments(_, _, _, _)
PushSegments(segments, offset, index, acc) ==
    IF segments = << >> THEN acc
    ELSE PushSegments(Tail(segments), offset, index,
                      Append(acc, [text |-> Head(segments).text,
                                   start |-> offset + Head(segments).start,
                                   end |-> offset + Head(segments).end,
                                   chunkIndex |-> index]))

\* a reconciliation that moves the offset on over the chunks missing from the
\* list, by a minute each
RECURSIVE Reconcile_GapFill(_, _, _)
Reconcile_GapFill(results, n, acc) ==
    IF n > Len(results) THEN acc
    ELSE LET result == results[n]
             missing == result.index - (IF n = 1 THEN 0 ELSE results[n - 1].index + 1)
             before == acc.totalOffset + missing * Sec(60)
             taken == result.success /\ "segments" \in DOMAIN result
             after == IF taken /\ "duration" \in DOMAIN result /\ result.duration # 0
                      THEN before + result.duration
                      ELSE before
         IN  Reconcile_GapFill(results, n + 1,
                 [allSegments |-> IF taken
                                  THEN PushSegments(result.segments, before,
                                                    result.index, acc.allSegments)
                                  ELSE acc.allSegments,
                  totalOffset |-> after,
                  timeline |-> Append(acc.timeline,
                                      [index |-> result.index, before |-> before,
                                       after |-> after])])

\* transcriptionResults.forEach of analyzeTopicsWithTimestamps from entry n on:
\* allSegments, totalOffset, and totalOffset before and after each entry
RECURSIVE Reconcile(_, _, _)
Reconcile(results, n, acc) ==
    IF n > Len(results) THEN acc
    ELSE LET result == results[n]
             taken == result.success /\ "segments" \in DOMAIN result
             after == IF taken /\ "duration" \in DOMAIN result /\ result.duration # 0
                      THEN acc.totalOffset + result.duration
                      ELSE acc.totalOffset
         IN  Reconcile(results, n + 1,
                 [allSegments |-> IF taken
                                  THEN PushSegments(result.segments, acc.totalOffset,
                                                    result.index, acc.allSegments)
                                  ELSE acc.allSegments,
                  totalOffset |-> after,
                  timeline |-> Append(acc.timeline,
                                      [index |-> result.index,
                                       before |-> acc.totalOffset,
                                       after |-> after])])

\* the topic counts with the lower bounds of the ranges taken as exclusive
getTopicCountForDuration_Exclusive(durationInSeconds) ==
    LET duration == durationInSeconds \div Tick
    IN  IF duration > 60 /\ duration < 1200
        THEN [minTopics |-> 3, maxTopics |-> 6, category |-> "short"]
        ELSE IF duration > 1200 /\ duration < 2400
        THEN [minTopics |-> 5, maxTopics |-> 8, category |-> "medium"]
        ELSE IF duration > 2400
        THEN [minTopics |-> 8, maxTopics |-> 10, category |-> "long"]
        ELSE [minTopics |-> 2, maxTopics |-> 3, category |-> "very_short"]

\* getTopicCountForDuration; Math.floor of a time is its whole seconds
getTopicCountForDuration(durationInSeconds) ==
    LET duration == durationInSeconds \div Tick
    IN  IF duration >= 60 /\ duration < 1200
        THEN [minTopics |-> 3, maxTopics |-> 6, category |-> "short"]
        ELSE IF duration >= 1200 /\ duration < 2400
        THEN [minTopics |-> 5, maxTopics |-> 8, category |-> "medium"]
        ELSE IF duration >= 2400
        THEN [minTopics |-> 8, maxTopics |-> 10, category |-> "long"]
        ELSE [minTopics |-> 2, maxTopics |-> 3, category |-> "very_short"]

\* a string that may be null is kept in a record
Str(chars) == [chars |-> chars]

\* errors of the segmentation step: each has a message
ConnectionError == [name |-> "APIConnectionError", message |-> Str("Connection error.")]
KeyError == [name |-> "Error", message |-> Str("Failed to retrieve Gemini API key")]
SyntaxError == [name |-> "SyntaxError", message |-> Str("Unexpected token")]
StorageError == [name |-> "S3ServiceException", message |-> Str("Access Denied")]
UnlinkError == [name |-> "Error", message |-> Str("ENOENT: no such file or directory")]
\* topicAnalysis.segments of the value null
NullError ==
    [name |-> "TypeError",
     message |-> Str("Cannot read properties of null (reading 'segments')")]

\* message.content of the segmentation answer: a JSON text with the value
\* it denotes, or a text that is no JSON
TopicSegment(s, e, t) == [startTime |-> s, endTime |-> e, topic |-> t, description |-> t]
ContentSegments ==
    [json |-> TRUE,
     value |-> [segments |-> <<TopicSegment("00:00", "00:30", "t1"),
                               TopicSegment("00:30", "01:00", "t2")>>]]
ContentNoSegments == [json |-> TRUE, value |-> [topics |-> << >>]]
ContentNull == [json |-> TRUE, value |-> Null]
ContentNotJson == [json |-> FALSE]
Contents == {ContentSegments, ContentNoSegments, ContentNull, ContentNotJson}

\* JSON.parse: the value, or a SyntaxError thrown
JSONParse(content) ==
    IF content.json THEN [threw |-> FALSE, value |-> content.value]
    ELSE [threw |-> TRUE, error |-> SyntaxError]

\* the texts put together without a blank between them
RECURSIVE JoinTexts_NoBlank(_)
JoinTexts_NoBlank(results) ==
    IF results = << >> THEN << >>
    ELSE LET text == IF "text" \in DOMAIN Head(results) THEN Head(results).text ELSE << >>
         IN  text \o JoinTexts_NoBlank(Tail(results))
\* results.map((result) => result.text).join(" ")
RECURSIVE JoinTexts(_)
JoinTexts(results) ==
    IF results = << >> THEN << >>
    ELSE LET text == IF "text" \in DOMAIN Head(results) THEN Head(results).text ELSE << >>
         IN  IF Len(results) = 1 THEN text
             ELSE text \o <<" ">> \o JoinTexts(Tail(results))

\* the object transcribeAudioWithTopics returns, with the error left out
CombineResults_NoError(results, analysis, error) ==
    [transcription |-> JoinTexts(SelectSeq(results, LAMBDA r : r.success)),
     transcriptionResults |-> results,
     topicAnalysis |-> analysis,
     analysisError |-> Null]

\* the object transcribeAudioWithTopics returns
CombineResults(results, analysis, error) ==
    [transcription |-> JoinTexts(SelectSeq(results, LAMBDA r : r.success)),
     transcriptionResults |-> results,
     topicAnalysis |-> analysis,
     analysisError |-> error]

\* topicsData of the handler: null when there is no topicAnalysis
TopicsData(enhanced) ==
    IF enhanced.topicAnalysis = Null THEN Null
    ELSE [topicSegments |-> IF "segments" \in DOMAIN enhanced.topicAnalysis
                            THEN enhanced.topicAnalysis.segments ELSE Null,
          analysisError |-> enhanced.analysisError]

TranscriptionKey == Str("transcription/")
TopicsKey == Str("topics/")

\* a result that names the topics object whether it was uploaded or not
HandlerResult_KeyAlways(enhanced, topicsKey) ==
    [transcriptionCompleted |-> TRUE,
     transcription |-> enhanced.transcription,
     topicSegments |-> IF enhanced.topicAnalysis # Null
                          /\ "segments" \in DOMAIN enhanced.topicAnalysis
                       THEN enhanced.topicAnalysis.segments ELSE Null,
     segmentationCompleted |-> enhanced.topicAnalysis # Null,
     segmentationError |-> enhanced.analysisError,
     transcriptionKey |-> TranscriptionKey,
     topicsKey |-> TopicsKey,
     outputKey |-> TranscriptionKey]
\* the object the handler returns
HandlerResult(enhanced, topicsKey) ==
    [transcriptionCompleted |-> TRUE,
     transcription |-> enhanced.transcription,
     topicSegments |-> IF enhanced.topicAnalysis # Null
                          /\ "segments" \in DOMAIN enhanced.topicAnalysis
                       THEN enhanced.topicAnalysis.segments ELSE Null,
     segmentationCompleted |-> enhanced.topicAnalysis # Null,
     segmentationError |-> enhanced.analysisError,
     transcriptionKey |-> TranscriptionKey,
     topicsKey |-> topicsKey,
     outputKey |-> TranscriptionKey]

(***************************************************************************)
(* The job: getDetailedTranscriptionResults.                               *)
(***************************************************************************)
ChunkSizes == {MinChunkBytes, 2 * MinChunkBytes}
SmallTail == 100
Tails(cSize) == {t \in {0, SmallTail, MinChunkBytes} : t < cSize}
FileSizes(cSize) == {n * cSize + t : n \in 0..MaxFullChunks, t \in Tails(cSize)}

Idle ==
    /\ chunks = << >>
    /\ batchStart = 0
    /\ tpc = << >>
    /\ retryCount = << >>
    /\ backoffTime = << >>
    /\ caught = << >>
    /\ settled = << >>
    /\ attempts = << >>
    /\ sleeps = << >>
    /\ outcome = << >>
    /\ transcriptionResults = << >>
    /\ failedChunks = << >>
    /\ gate = None

\* nothing of the steps after the gate has happened: the audio file the
\* handler downloaded is there
TopicsIdle ==
    /\ returned = << >>
    /\ allSegments = << >>
    /\ totalOffset = 0
    /\ timeline = << >>
    /\ topicCount = None
    /\ requests = << >>
    /\ topicAnalysis = Null
    /\ analysisError = Null
    /\ enhancedResults = None
    /\ uploads = << >>
    /\ handlerOut = None
    /\ audioFile = "present"

\* no execution of the state machine and no call of saveToDynamoDB is
\* followed
FlowIdle ==
    /\ wf = None
    /\ table = << >>
    /\ save = << >>

\* one invocation runs the job and has set the transcription client before
\* it; the invocations of the process are not followed
OneJob ==
    /\ openaiClient = TRUE
    /\ invocation = << >>
    /\ constructed = [openai |-> 0, gemini |-> 0]
    /\ keyFetches = [openai |-> 0, gemini |-> 0]
    /\ clientCalls = {}

\* a cold start with the configuration as it is written in the source
Init ==
    /\ chunkSize \in ChunkSizes
    /\ fileSize \in FileSizes(chunkSize)
    /\ concurrentRequests \in 1..MaxConcurrent
    /\ phase = "start"
    /\ Idle
    /\ fnIn = None
    /\ fnOut = None
    /\ enableFallback = TRUE
    /\ geminiClient = FALSE
    /\ TopicsIdle
    /\ FlowIdle
    /\ OneJob

\* getAudioFileSize returns: the chunks are planned, the results array is
\* allocated and the first batch is launched
StartJob ==
    /\ phase = "start"
    /\ LET list == PlanChunks(fileSize, chunkSize)
       IN  /\ chunks' = list
           /\ tpc' = LaunchBatch(0, concurrentRequests, list,
                                 [c \in Indices(list) |-> "idle"])
           /\ retryCount' = [c \in Indices(list) |-> 0]
           /\ backoffTime' = [c \in Indices(list) |-> 0]
           /\ caught' = [c \in Indices(list) |-> None]
           /\ settled' = [c \in Indices(list) |-> Pending]
           /\ attempts' = [c \in Indices(list) |-> 0]
           /\ sleeps' = [c \in Indices(list) |-> 0]
           /\ outcome' = [c \in Indices(list) |-> "none"]
           /\ transcriptionResults' = [c \in Indices(list) |-> Hole]
           /\ phase' = IF Len(list) = 0 THEN "gate" ELSE "batch"
    /\ batchStart' = 0
    /\ failedChunks' = << >>
    /\ UNCHANGED <<fileSize, chunkSize, concurrentRequests, gate, fnIn, fnOut, topicVars, processVars, audioFile, flowVars>>

ChunkLength(c) == Chunk(chunks, c).end - Chunk(chunks, c).start

\* the size check dropping a chunk of exactly 4096 bytes as well
ChunkTooSmall_Inclusive(c) ==
    /\ tpc[c] = "fetching"
    /\ ChunkLength(c) <= MinChunkBytes
    /\ tpc' = [tpc EXCEPT ![c] = "settled"]
    /\ settled' = [settled EXCEPT ![c] = Fulfilled(Null)]
    /\ UNCHANGED <<fileSize, chunkSize, concurrentRequests, phase, chunks, batchStart,
                   retryCount, backoffTime, caught, attempts, sleeps, outcome,
                   transcriptionResults, failedChunks, gate, fnIn, fnOut, topicVars, processVars, audioFile, flowVars>>
\* getAudioChunk returns null: the callback returns null
ChunkTooSmall(c) ==
    /\ tpc[c] = "fetching"
    /\ ChunkLength(c) < MinChunkBytes
    /\ tpc' = [tpc EXCEPT ![c] = "settled"]
    /\ settled' = [settled EXCEPT ![c] = Fulfilled(Null)]
    /\ UNCHANGED <<fileSize, chunkSize, concurrentRequests, phase, chunks, batchStart,
                   retryCount, backoffTime, caught, attempts, sleeps, outcome,
                   transcriptionResults, failedChunks, gate, fnIn, fnOut, topicVars, processVars, audioFile, flowVars>>

\* the read stream ends: transcribeChunkWithRetry(chunkBuffer, index) sends
\* the first request
ChunkRead(c) ==
    /\ tpc[c] = "fetching"
    /\ ChunkLength(c) >= MinChunkBytes
    /\ tpc' = [tpc EXCEPT ![c] = "calling"]
    /\ retryCount' = [retryCount EXCEPT ![c] = 0]
    /\ attempts' = [attempts EXCEPT ![c] = @ + 1]
    /\ UNCHANGED <<fileSize, chunkSize, concurrentRequests, phase, chunks, batchStart,
                   backoffTime, caught, settled, sleeps, outcome,
                   transcriptionResults, failedChunks, gate, fnIn, fnOut, topicVars, processVars, audioFile, flowVars>>

\* a read error that leaves the scheduler: the job throws it
ChunkReadError_Escapes(c) ==
    /\ tpc[c] = "fetching"
    /\ ChunkLength(c) >= MinChunkBytes
    /\ tpc' = [tpc EXCEPT ![c] = "settled"]
    /\ settled' = [settled EXCEPT ![c] = Rejected]
    /\ phase' = "thrown"
    /\ handlerOut' = [thrown |-> [name |-> "Error", message |-> Str("read failed")]]
    /\ UNCHANGED <<fileSize, chunkSize, concurrentRequests, chunks, batchStart,
                   retryCount, backoffTime, caught, attempts, sleeps, outcome,
                   transcriptionResults, failedChunks, gate, fnIn, fnOut, processVars, audioFile, flowVars,
                   enableFallback, geminiClient, returned, allSegments, totalOffset,
                   timeline, topicCount, requests, topicAnalysis, analysisError,
                   enhancedResults, uploads>>
\* the read stream emits an error: the batch promise rejects
ChunkReadError(c) ==
    /\ tpc[c] = "fetching"
    /\ ChunkLength(c) >= MinChunkBytes
    /\ tpc' = [tpc EXCEPT ![c] = "settled"]
    /\ settled' = [settled EXCEPT ![c] = Rejected]
    /\ UNCHANGED <<fileSize, chunkSize, concurrentRequests, phase, chunks, batchStart,
                   retryCount, backoffTime, caught, attempts, sleeps, outcome,
                   transcriptionResults, failedChunks, gate, fnIn, fnOut, topicVars, processVars, audioFile, flowVars>>

\* the transcription request returns
TranscribeOk(c) ==
    /\ tpc[c] = "calling"
    /\ tpc' = [tpc EXCEPT ![c] = "settled"]
    /\ settled' = [settled EXCEPT ![c] = Fulfilled(SuccessResult(c, TranscriptionOf(c)))]
    /\ UNCHANGED <<fileSize, chunkSize, concurrentRequests, phase, chunks, batchStart,
                   retryCount, backoffTime, caught, attempts, sleeps, outcome,
                   transcriptionResults, failedChunks, gate, fnIn, fnOut, topicVars, processVars, audioFile, flowVars>>

\* the transcription request throws error: the catch block
TranscribeFail(c, error) ==
    /\ tpc[c] = "calling"
    /\ caught' = [caught EXCEPT ![c] = error]
    /\ IF IsPermanentStatus(error.status)
       THEN /\ tpc' = [tpc EXCEPT ![c] = "settled"]
            /\ settled' = [settled EXCEPT ![c] = Fulfilled(PermanentFailure(c, error))]
            /\ UNCHANGED <<backoffTime, sleeps>>
       ELSE IF retryCount[c] < MAX_RETRIES
            THEN /\ tpc' = [tpc EXCEPT ![c] = "sleeping"]
                 /\ backoffTime' = [backoffTime EXCEPT ![c] = BackoffTime(error, retryCount[c])]
                 /\ sleeps' = [sleeps EXCEPT ![c] = @ + 1]
                 /\ UNCHANGED settled
            ELSE /\ tpc' = [tpc EXCEPT ![c] = "settled"]
                 /\ settled' = [settled EXCEPT ![c] = Fulfilled(ExhaustedFailure(c, error))]
                 /\ UNCHANGED <<backoffTime, sleeps>>
    /\ UNCHANGED <<fileSize, chunkSize, concurrentRequests, phase, chunks, batchStart,
                   retryCount, attempts, outcome,
                   transcriptionResults, failedChunks, gate, fnIn, fnOut, topicVars, processVars, audioFile, flowVars>>

\* the sleep ends: transcribeChunkWithRetry(chunkBuffer, index, retryCount + 1)
\* sends the next request; the catch block's error and delay are left behind
Wake(c) ==
    /\ tpc[c] = "sleeping"
    /\ tpc' = [tpc EXCEPT ![c] = "calling"]
    /\ retryCount' = [retryCount EXCEPT ![c] = @ + 1]
    /\ attempts' = [attempts EXCEPT ![c] = @ + 1]
    /\ caught' = [caught EXCEPT ![c] = None]
    /\ backoffTime' = [backoffTime EXCEPT ![c] = 0]
    /\ UNCHANGED <<fileSize, chunkSize, concurrentRequests, phase, chunks, batchStart,
                   settled, sleeps, outcome,
                   transcriptionResults, failedChunks, gate, fnIn, fnOut, topicVars, processVars, audioFile, flowVars>>

\* how a settled batch promise ended
OutcomeOf(r) ==
    IF r.status = "rejected" THEN "readError"
    ELSE IF r.value = Null THEN "dropped"
    ELSE IF r.value.success THEN "success"
    ELSE IF ValuePermanent(r.value) THEN "permanent"
    ELSE "exhausted"

\* Promise.allSettled resolves: the results of the batch are collected and
\* the loop goes on to the next batch, or ends.  The batch's promises, its
\* results and the locals of its calls go out of scope.
BatchSettled ==
    /\ phase = "batch"
    /\ \A c \in BatchOf(batchStart, concurrentRequests, chunks) : tpc[c] = "settled"
    /\ LET batch == BatchOf(batchStart, concurrentRequests, chunks)
           got == CollectResults(settled, batchStart, 0, concurrentRequests,
                                 [slots |-> transcriptionResults, failed |-> failedChunks])
           i == batchStart + concurrentRequests
           ended == [c \in DOMAIN tpc |-> IF c \in batch THEN "done" ELSE tpc[c]]
       IN  /\ transcriptionResults' = got.slots
           /\ failedChunks' = got.failed
           /\ outcome' = [c \in DOMAIN outcome |->
                             IF c \in batch THEN OutcomeOf(settled[c]) ELSE outcome[c]]
           /\ settled' = [c \in DOMAIN settled |->
                             IF c \in batch THEN Pending ELSE settled[c]]
           /\ retryCount' = [c \in DOMAIN retryCount |->
                                IF c \in batch THEN 0 ELSE retryCount[c]]
           /\ attempts' = [c \in DOMAIN attempts |->
                              IF c \in batch THEN 0 ELSE attempts[c]]
           /\ sleeps' = [c \in DOMAIN sleeps |->
                            IF c \in batch THEN 0 ELSE sleeps[c]]
           /\ caught' = [c \in DOMAIN caught |->
                            IF c \in batch THEN None ELSE caught[c]]
           /\ batchStart' = i
           /\ IF i < Len(chunks)
              THEN /\ tpc' = LaunchBatch(i, concurrentRequests, chunks, ended)
                   /\ phase' = "batch"
              ELSE /\ tpc' = ended
                   /\ phase' = "gate"
    /\ UNCHANGED <<fileSize, chunkSize, concurrentRequests, chunks,
                   backoffTime, gate, fnIn, fnOut, topicVars, processVars, audioFile, flowVars>>

\* the gate that lets every job through
GateCheck_Continue ==
    /\ phase = "gate"
    /\ gate' = SuccessGate(transcriptionResults, chunks)
    /\ phase' = "passed"
    /\ returned' = FilterBoolean(transcriptionResults, 0)
    /\ UNCHANGED <<fileSize, chunkSize, concurrentRequests, chunks, batchStart,
                   tpc, retryCount, backoffTime, caught, settled, attempts, sleeps, outcome,
                   transcriptionResults, failedChunks, fnIn, fnOut, processVars, audioFile, flowVars,
                   enableFallback, geminiClient, allSegments, totalOffset, timeline,
                   topicCount, requests, topicAnalysis, analysisError, enhancedResults,
                   uploads, handlerOut>>

\* the gate evaluated without waiting for the loop to end
GateCheck_Early ==
    /\ phase \in {"batch", "gate"}
    /\ gate' = SuccessGate(transcriptionResults, chunks)
    /\ phase' = IF gate'.failed THEN "failed" ELSE "passed"
    /\ returned' = IF gate'.failed THEN returned
                   ELSE FilterBoolean(transcriptionResults, 0)
    /\ UNCHANGED <<fileSize, chunkSize, concurrentRequests, chunks, batchStart,
                   tpc, retryCount, backoffTime, caught, settled, attempts, sleeps, outcome,
                   transcriptionResults, failedChunks, fnIn, fnOut, processVars, audioFile, flowVars,
                   enableFallback, geminiClient, allSegments, totalOffset, timeline,
                   topicCount, requests, topicAnalysis, analysisError, enhancedResults,
                   uploads, handlerOut>>
\* the success gate after the loop: throw, or return the results that are
\* there
GateCheck ==
    /\ phase = "gate"
    /\ gate' = SuccessGate(transcriptionResults, chunks)
    /\ phase' = IF gate'.failed THEN "failed" ELSE "passed"
    /\ returned' = IF gate'.failed THEN returned
                   ELSE FilterBoolean(transcriptionResults, 0)
    /\ UNCHANGED <<fileSize, chunkSize, concurrentRequests, chunks, batchStart,
                   tpc, retryCount, backoffTime, caught, settled, attempts, sleeps, outcome,
                   transcriptionResults, failedChunks, fnIn, fnOut, processVars, audioFile, flowVars,
                   enableFallback, geminiClient, allSegments, totalOffset, timeline,
                   topicCount, requests, topicAnalysis, analysisError, enhancedResults,
                   uploads, handlerOut>>

\* the error of the gate leaves transcribeAudioWithTopics, which does not
\* catch it, and the handler, whose catch block throws it again
JobThrow_Swallow ==
    /\ phase = "failed"
    /\ phase' = "returned"
    /\ handlerOut' = [value |-> Null]
    /\ UNCHANGED <<batchVars, processVars, audioFile, flowVars, fnIn, fnOut, enableFallback, geminiClient>>
    /\ UNCHANGED <<returned, allSegments, totalOffset, timeline, topicCount, requests,
                   topicAnalysis, analysisError, enhancedResults, uploads>>

JobThrow ==
    /\ phase = "failed"
    /\ phase' = "thrown"
    /\ handlerOut' = [thrown |-> gate.error]
    /\ UNCHANGED <<batchVars, processVars, audioFile, flowVars, fnIn, fnOut, enableFallback, geminiClient>>
    /\ UNCHANGED <<returned, allSegments, totalOffset, timeline, topicCount, requests,
                   topicAnalysis, analysisError, enhancedResults, uploads>>

\* the request analyzeTopicsWithTimestamps sends: the topic range and the
\* duration the prompt names
SegmentationRequest(count, duration) ==
    [minTopics |-> count.minTopics, maxTopics |-> count.maxTopics, duration |-> duration]

\* getDetailedTranscriptionResults has returned: analyzeTopicsWithTimestamps
\* reconciles the segments, picks the topic count and, with its client there,
\* sends the request; without it, it asks for the key first
AnalyzeStart ==
    /\ phase = "passed"
    /\ LET done == Reconcile(returned, 1,
                             [allSegments |-> << >>, totalOffset |-> 0, timeline |-> << >>])
           count == getTopicCountForDuration(done.totalOffset)
       IN  /\ allSegments' = done.allSegments
           /\ totalOffset' = done.totalOffset
           /\ timeline' = done.timeline
           /\ topicCount' = count
           /\ IF geminiClient
              THEN /\ requests' = Append(requests, SegmentationRequest(count, done.totalOffset))
                   /\ phase' = "segmenting"
              ELSE /\ requests' = requests
                   /\ phase' = "geminiKey"
    /\ UNCHANGED <<batchVars, processVars, audioFile, flowVars, fnIn, fnOut, enableFallback, geminiClient>>
    /\ UNCHANGED <<returned, topicAnalysis, analysisError, enhancedResults, uploads,
                   handlerOut>>

\* a segmentation failure that is never job-fatal
AnalysisFailed_AlwaysFallback(error) ==
    /\ analysisError' = error.message
    /\ enhancedResults' = CombineResults(returned, topicAnalysis, error.message)
    /\ phase' = "uploadTranscription"
    /\ UNCHANGED handlerOut

\* the catch blocks: analyzeTopicsWithTimestamps throws the error again,
\* transcribeAudioWithTopics records its message and, with the fallback on,
\* returns the transcription alone; with it off the error leaves the handler
AnalysisFailed(error) ==
    /\ analysisError' = error.message
    /\ IF ~enableFallback
       THEN /\ phase' = "thrown"
            /\ handlerOut' = [thrown |-> error]
            /\ UNCHANGED enhancedResults
       ELSE /\ enhancedResults' = CombineResults(returned, topicAnalysis, error.message)
            /\ phase' = "uploadTranscription"
            /\ UNCHANGED handlerOut

\* getGeminiApiKey returns: the client is set and the request is sent
GeminiKeyOk ==
    /\ phase = "geminiKey"
    /\ geminiClient' = TRUE
    /\ requests' = Append(requests, SegmentationRequest(topicCount, totalOffset))
    /\ phase' = "segmenting"
    /\ UNCHANGED <<batchVars, processVars, audioFile, flowVars, fnIn, fnOut, enableFallback>>
    /\ UNCHANGED <<returned, allSegments, totalOffset, timeline, topicCount,
                   topicAnalysis, analysisError, enhancedResults, uploads, handlerOut>>

\* getGeminiApiKey throws
GeminiKeyFail ==
    /\ phase = "geminiKey"
    /\ AnalysisFailed(KeyError)
    /\ UNCHANGED <<batchVars, processVars, audioFile, flowVars, fnIn, fnOut, enableFallback, geminiClient>>
    /\ UNCHANGED <<returned, allSegments, totalOffset, timeline, topicCount, requests,
                   topicAnalysis, uploads>>

\* a request that threw is sent again
SegmentationError_Retry ==
    /\ phase = "segmenting"
    /\ requests' = Append(requests, SegmentationRequest(topicCount, totalOffset))
    /\ UNCHANGED <<batchVars, processVars, audioFile, flowVars, fnIn, fnOut, enableFallback, geminiClient, phase>>
    /\ UNCHANGED <<returned, allSegments, totalOffset, timeline, topicCount,
                   topicAnalysis, analysisError, enhancedResults, uploads, handlerOut>>
\* the segmentation request throws
SegmentationError ==
    /\ phase = "segmenting"
    /\ AnalysisFailed(ConnectionError)
    /\ UNCHANGED <<batchVars, processVars, audioFile, flowVars, fnIn, fnOut, enableFallback, geminiClient>>
    /\ UNCHANGED <<returned, allSegments, totalOffset, timeline, topicCount, requests,
                   topicAnalysis, uploads>>

\* the segmentation request returns content: it is parsed, its segments are
\* read for the log, which throws when it denotes null, and what it denotes
\* is the topicAnalysis
SegmentationResponse(content) ==
    /\ phase = "segmenting"
    /\ LET parsed == JSONParse(content)
       IN  IF parsed.threw
           THEN /\ AnalysisFailed(parsed.error)
                /\ UNCHANGED topicAnalysis
           ELSE IF parsed.value = Null
           THEN /\ AnalysisFailed(NullError)
                /\ UNCHANGED topicAnalysis
           ELSE /\ topicAnalysis' = parsed.value
                /\ enhancedResults' = CombineResults(returned, parsed.value, analysisError)
                /\ phase' = "uploadTranscription"
                /\ UNCHANGED <<analysisError, handlerOut>>
    /\ UNCHANGED <<batchVars, processVars, audioFile, flowVars, fnIn, fnOut, enableFallback, geminiClient>>
    /\ UNCHANGED <<returned, allSegments, totalOffset, timeline, topicCount, requests,
                   uploads>>

\* the upload of the transcription returns: the topics are uploaded next
\* when there are any, the audio file is deleted when there are none
UploadTranscriptionOk ==
    /\ phase = "uploadTranscription"
    /\ uploads' = Append(uploads, [key |-> TranscriptionKey,
                                   transcription |-> enhancedResults.transcription])
    /\ phase' = IF TopicsData(enhancedResults) # Null THEN "uploadTopics" ELSE "cleanup"
    /\ UNCHANGED <<batchVars, processVars, audioFile, flowVars, fnIn, fnOut, enableFallback, geminiClient>>
    /\ UNCHANGED <<returned, allSegments, totalOffset, timeline, topicCount, requests,
                   topicAnalysis, analysisError, enhancedResults, handlerOut>>

\* the upload of the topics returns
UploadTopicsOk ==
    /\ phase = "uploadTopics"
    /\ uploads' = Append(uploads, [key |-> TopicsKey] @@ TopicsData(enhancedResults))
    /\ phase' = "cleanup"
    /\ UNCHANGED <<batchVars, processVars, audioFile, flowVars, fnIn, fnOut, enableFallback, geminiClient>>
    /\ UNCHANGED <<returned, allSegments, totalOffset, timeline, topicCount, requests,
                   topicAnalysis, analysisError, enhancedResults, handlerOut>>

\* an upload throws: the catch block of the handler throws the error again
UploadFail ==
    /\ phase \in {"uploadTranscription", "uploadTopics"}
    /\ phase' = "thrown"
    /\ handlerOut' = [thrown |-> StorageError]
    /\ UNCHANGED <<batchVars, processVars, audioFile, flowVars, fnIn, fnOut, enableFallback, geminiClient>>
    /\ UNCHANGED <<returned, allSegments, totalOffset, timeline, topicCount, requests,
                   topicAnalysis, analysisError, enhancedResults, uploads>>

\* fs.unlink returns: the audio file is gone and the handler returns its
\* result
UnlinkOk ==
    /\ phase = "cleanup"
    /\ phase' = "returned"
    /\ audioFile' = "deleted"
    /\ handlerOut' = [value |-> HandlerResult(enhancedResults,
                                              IF TopicsData(enhancedResults) # Null
                                              THEN TopicsKey ELSE Null)]
    /\ UNCHANGED <<batchVars, processVars, flowVars, fnIn, fnOut, enableFallback, geminiClient>>
    /\ UNCHANGED <<returned, allSegments, totalOffset, timeline, topicCount, requests,
                   topicAnalysis, analysisError, enhancedResults, uploads>>

\* fs.unlink throws
UnlinkFail ==
    /\ phase = "cleanup"
    /\ phase' = "thrown"
    /\ handlerOut' = [thrown |-> UnlinkError]
    /\ UNCHANGED <<batchVars, processVars, audioFile, flowVars, fnIn, fnOut, enableFallback, geminiClient>>
    /\ UNCHANGED <<returned, allSegments, totalOffset, timeline, topicCount, requests,
                   topicAnalysis, analysisError, enhancedResults, uploads>>

Next ==
    \/ StartJob
    \/ \E c \in DOMAIN tpc : ChunkTooSmall(c)
    \/ \E c \in DOMAIN tpc : ChunkRead(c)
    \/ \E c \in DOMAIN tpc : ChunkReadError(c)
    \/ \E c \in DOMAIN tpc : TranscribeOk(c)
    \/ \E c \in DOMAIN tpc, error \in Errors : TranscribeFail(c, error)
    \/ \E c \in DOMAIN tpc : Wake(c)
    \/ BatchSettled
    \/ GateCheck
    \/ JobThrow
    \/ AnalyzeStart
    \/ GeminiKeyOk
    \/ GeminiKeyFail
    \/ SegmentationError
    \/ \E content \in Contents : SegmentationResponse(content)
    \/ UploadTranscriptionOk
    \/ UploadTopicsOk
    \/ UploadFail
    \/ UnlinkOk
    \/ UnlinkFail

Spec == Init /\ [][Next]_vars

\* the steps of Next but for the gate: the calls the job waits for, each of
\* which returns or throws, and the code that runs when they have
Settles ==
    \/ StartJob
    \/ \E c \in DOMAIN tpc : ChunkTooSmall(c)
    \/ \E c \in DOMAIN tpc : ChunkRead(c)
    \/ \E c \in DOMAIN tpc : ChunkReadError(c)
    \/ \E c \in DOMAIN tpc : TranscribeOk(c)
    \/ \E c \in DOMAIN tpc, error \in Errors : TranscribeFail(c, error)
    \/ \E c \in DOMAIN tpc : Wake(c)
    \/ BatchSettled
    \/ JobThrow
    \/ AnalyzeStart
    \/ GeminiKeyOk
    \/ GeminiKeyFail
    \/ SegmentationError
    \/ \E content \in Contents : SegmentationResponse(content)
    \/ UploadTranscriptionOk
    \/ UploadTopicsOk
    \/ UploadFail
    \/ UnlinkOk
    \/ UnlinkFail

\* WF_vars(GateCheck): the gate is code that runs without waiting.  GateCheck
\* is enabled exactly when phase = "gate" and leaves that phase for good, so
\* the condition is that the job is not at the gate for ever.
GateRuns == []<>(phase # "gate")

\* every call that is waited for returns or throws, and the code between two
\* calls runs
FairSpec == Spec /\ WF_vars(Settles) /\ GateRuns

(***************************************************************************)
(* The gate on its own: the job right after its last batch was collected,  *)
(* with any number of chunks and of successes among them.                  *)
(***************************************************************************)
RECURSIVE LoopEnd(_, _, _)
LoopEnd(i, k, n) == IF i < n THEN LoopEnd(i + k, k, n) ELSE i

InitGate ==
    /\ chunkSize = MinChunkBytes
    /\ concurrentRequests = MaxConcurrent
    /\ \E t \in 0..MaxGateChunks, ok \in 0..MaxGateChunks :
        /\ ok <= t
        /\ fileSize = t * chunkSize
        /\ chunks = PlanChunks(fileSize, chunkSize)
        /\ outcome = [c \in 0..(t - 1) |-> IF c < ok THEN "success" ELSE "exhausted"]
        /\ transcriptionResults =
               [c \in 0..(t - 1) |->
                    IF c < ok THEN SuccessResult(c, TranscriptionOf(c)) ELSE Hole]
        /\ failedChunks = SubSeq(chunks, ok + 1, t)
        /\ tpc = [c \in 0..(t - 1) |-> "done"]
        /\ retryCount = [c \in 0..(t - 1) |-> 0]
        /\ backoffTime = [c \in 0..(t - 1) |-> 0]
        /\ caught = [c \in 0..(t - 1) |-> None]
        /\ settled = [c \in 0..(t - 1) |-> Pending]
        /\ attempts = [c \in 0..(t - 1) |-> 0]
        /\ sleeps = [c \in 0..(t - 1) |-> 0]
        /\ batchStart = LoopEnd(0, concurrentRequests, t)
    /\ phase = "gate"
    /\ gate = None
    /\ fnIn = None
    /\ fnOut = None
    /\ enableFallback = TRUE
    /\ geminiClient = FALSE
    /\ TopicsIdle
    /\ FlowIdle
    /\ OneJob

NextGate == GateCheck

SpecGate == InitGate /\ [][NextGate]_vars

(***************************************************************************)
(* The planner on its own: any file size and any chunk size.               *)
(***************************************************************************)
InitPlan ==
    /\ fileSize \in 0..MaxPlanBytes
    /\ chunkSize \in 1..MaxPlanChunk
    /\ concurrentRequests = 1
    /\ phase = "start"
    /\ Idle
    /\ fnIn = None
    /\ fnOut = None
    /\ enableFallback = TRUE
    /\ geminiClient = FALSE
    /\ TopicsIdle
    /\ FlowIdle
    /\ OneJob

NextPlan == StartJob

SpecPlan == InitPlan /\ [][NextPlan]_vars

(***************************************************************************)
(* The steps after the batch loop on their own: the job right after its    *)
(* last batch was collected, with any outcome of each chunk, a tail that   *)
(* is dropped or not, either setting of the fallback and a client that is  *)
(* there or not.                                                           *)
(***************************************************************************)
Failure(kind) == [failure |-> kind]
Failures == {Failure("exhausted"), Failure("permanent")}

\* what the service may answer for chunk c
TranscriptionsOf(c) == {TranscriptionOf(c), TranscriptionOf(c + 2)}

\* the chunks of ended that failed after retries, in order
RECURSIVE ExhaustedChunks(_, _, _)
ExhaustedChunks(list, ended, c) ==
    IF c >= Len(list) THEN << >>
    ELSE IF ended[c] = Failure("exhausted")
         THEN <<Chunk(list, c)>> \o ExhaustedChunks(list, ended, c + 1)
         ELSE ExhaustedChunks(list, ended, c + 1)

InitTopics ==
    /\ chunkSize = MinChunkBytes
    /\ concurrentRequests = MaxConcurrent
    /\ \E t \in 0..MaxTopicChunks, tail \in {SmallTail, MinChunkBytes} :
        /\ fileSize = IF t = 0 THEN 0 ELSE (t - 1) * chunkSize + tail
        /\ chunks = PlanChunks(fileSize, chunkSize)
        /\ \E ended \in [0..(t - 1) -> Transcriptions \cup Failures \cup {Null}] :
            /\ \A c \in 0..(t - 1) :
                   IF c = t - 1 /\ tail < MinChunkBytes
                   THEN ended[c] = Null
                   ELSE ended[c] \in TranscriptionsOf(c) \cup Failures
            /\ outcome = [c \in 0..(t - 1) |->
                              IF ended[c] = Null THEN "dropped"
                              ELSE IF ended[c] \in Failures THEN ended[c].failure
                              ELSE "success"]
            /\ transcriptionResults =
                   [c \in 0..(t - 1) |->
                       IF ended[c] \in Transcriptions THEN SuccessResult(c, ended[c])
                       ELSE Hole]
            /\ failedChunks = ExhaustedChunks(chunks, ended, 0)
        /\ tpc = [c \in 0..(t - 1) |-> "done"]
        /\ retryCount = [c \in 0..(t - 1) |-> 0]
        /\ backoffTime = [c \in 0..(t - 1) |-> 0]
        /\ caught = [c \in 0..(t - 1) |-> None]
        /\ settled = [c \in 0..(t - 1) |-> Pending]
        /\ attempts = [c \in 0..(t - 1) |-> 0]
        /\ sleeps = [c \in 0..(t - 1) |-> 0]
        /\ batchStart = LoopEnd(0, concurrentRequests, t)
    /\ phase = "gate"
    /\ gate = None
    /\ fnIn = None
    /\ fnOut = None
    /\ enableFallback \in BOOLEAN
    /\ geminiClient \in BOOLEAN
    /\ TopicsIdle
    /\ FlowIdle
    /\ OneJob

NextTopics ==
    \/ GateCheck
    \/ JobThrow
    \/ AnalyzeStart
    \/ GeminiKeyOk
    \/ GeminiKeyFail
    \/ SegmentationError
    \/ \E content \in Contents : SegmentationResponse(content)
    \/ UploadTranscriptionOk
    \/ UploadTopicsOk
    \/ UploadFail
    \/ UnlinkOk
    \/ UnlinkFail

SpecTopics == InitTopics /\ [][NextTopics]_vars

(***************************************************************************)
(* getTopicCountForDuration on its own: durations around the bounds of the *)
(* categories, and the durations 0, 45, 900, 1800 and 3600 s.              *)
(***************************************************************************)
Durations ==
    {Sec(b) + k : b \in {60, 1200, 2400}, k \in (0 - MaxSpread)..MaxSpread}
        \cup {0, Sec(45), Sec(900), Sec(1800), Sec(3600)}

InitCount ==
    /\ fileSize = 0
    /\ chunkSize = MinChunkBytes
    /\ concurrentRequests = 1
    /\ phase = "idle"
    /\ Idle
    /\ fnIn \in Durations
    /\ fnOut = None
    /\ enableFallback = TRUE
    /\ geminiClient = FALSE
    /\ TopicsIdle
    /\ FlowIdle
    /\ OneJob

\* getTopicCountForDuration(fnIn) is called
TopicCountCall ==
    /\ phase = "idle"
    /\ fnOut = None
    /\ fnOut' = getTopicCountForDuration(fnIn)
    /\ UNCHANGED <<jobVars, fnIn, topicVars, processVars, audioFile, flowVars>>

NextCount == TopicCountCall

SpecCount == InitCount /\ [][NextCount]_vars

(***************************************************************************)
(* calculateSuccessThreshold on its own: two chunk counts, the first the   *)
(* smaller.                                                                *)
(***************************************************************************)
InitThreshold ==
    /\ fileSize = 0
    /\ chunkSize = MinChunkBytes
    /\ concurrentRequests = 1
    /\ phase = "threshold"
    /\ Idle
    /\ \E t1 \in 1..MaxGateChunks, t2 \in 1..MaxGateChunks :
           /\ t1 < t2
           /\ fnIn = [t1 |-> t1, t2 |-> t2]
    /\ fnOut = None
    /\ enableFallback = TRUE
    /\ geminiClient = FALSE
    /\ TopicsIdle
    /\ FlowIdle
    /\ OneJob

\* calculateSuccessThreshold is called with each of the two counts
ThresholdCall ==
    /\ phase = "threshold"
    /\ fnOut = None
    /\ fnOut' = [t1 |-> calculateSuccessThreshold(fnIn.t1),
                 t2 |-> calculateSuccessThreshold(fnIn.t2)]
    /\ UNCHANGED <<jobVars, fnIn, topicVars, processVars, audioFile, flowVars>>

NextThreshold == ThresholdCall

SpecThreshold == InitThreshold /\ [][NextThreshold]_vars

(***************************************************************************)
(* The process: invocations of the handler that share the module's two     *)
(* clients.  An invocation is followed from one call it waits for to the   *)
(* next; of its job only the requests made through the clients are kept.   *)
(* Invocations run one after the other or, each waiting for a call, at the *)
(* same time.                                                              *)
(***************************************************************************)
Invocations == 1..MaxInvocations

\* everything but the process and geminiClient
jobFrame == <<jobVars, fnIn, fnOut, enableFallback, returned, allSegments, totalOffset,
              timeline, topicCount, requests, topicAnalysis, analysisError,
              enhancedResults, uploads, handlerOut, audioFile, flowVars>>

InitProcess ==
    /\ fileSize = 0
    /\ chunkSize = MinChunkBytes
    /\ concurrentRequests = 1
    /\ phase = "process"
    /\ Idle
    /\ fnIn = None
    /\ fnOut = None
    /\ enableFallback = TRUE
    /\ geminiClient = FALSE
    /\ TopicsIdle
    /\ FlowIdle
    /\ openaiClient = FALSE
    /\ invocation = [h \in Invocations |-> "idle"]
    /\ constructed = [openai |-> 0, gemini |-> 0]
    /\ keyFetches = [openai |-> 0, gemini |-> 0]
    /\ clientCalls = {}

\* the handler is invoked: without the transcription client it asks for the
\* key, with it it goes on to download the audio file
HandlerStart(h) ==
    /\ phase = "process"
    /\ invocation[h] = "idle"
    /\ IF openaiClient
       THEN /\ invocation' = [invocation EXCEPT ![h] = "download"]
            /\ UNCHANGED keyFetches
       ELSE /\ invocation' = [invocation EXCEPT ![h] = "openaiKey"]
            /\ keyFetches' = [keyFetches EXCEPT !.openai = @ + 1]
    /\ UNCHANGED <<jobFrame, geminiClient, openaiClient, constructed, clientCalls>>

\* getOpenAIApiKey returns: the client is constructed and the download starts
OpenAIKeyOk(h) ==
    /\ invocation[h] = "openaiKey"
    /\ openaiClient' = TRUE
    /\ constructed' = [constructed EXCEPT !.openai = @ + 1]
    /\ invocation' = [invocation EXCEPT ![h] = "download"]
    /\ UNCHANGED <<jobFrame, geminiClient, keyFetches, clientCalls>>

\* getOpenAIApiKey or the download throws: the handler throws
HandlerFail(h) ==
    /\ invocation[h] \in {"openaiKey", "download"}
    /\ invocation' = [invocation EXCEPT ![h] = "thrown"]
    /\ UNCHANGED <<jobFrame, geminiClient, openaiClient, constructed, keyFetches, clientCalls>>

\* analyzeTopicsWithTimestamps is called: it asks for the key without the
\* segmentation client, and sends its request with it
StartAnalysis(h) ==
    IF geminiClient
    THEN /\ invocation' = [invocation EXCEPT ![h] = "segmenting"]
         /\ clientCalls' = clientCalls \cup
                {[by |-> h, client |-> "gemini", ready |-> geminiClient]}
         /\ UNCHANGED keyFetches
    ELSE /\ invocation' = [invocation EXCEPT ![h] = "geminiKey"]
         /\ keyFetches' = [keyFetches EXCEPT !.gemini = @ + 1]
         /\ UNCHANGED clientCalls

\* the sizes of the audio file of an invocation: empty, or of one chunk
ProcessSizes == {0, MinChunkBytes}

\* the download returns an audio file of size bytes: the job starts; the job
\* of an empty file has no chunk to read, passes the gate and goes on to the
\* segmentation
DownloadOk(h, size) ==
    /\ invocation[h] = "download"
    /\ IF PlanChunks(size, chunkSize) = << >>
       THEN StartAnalysis(h)
       ELSE /\ invocation' = [invocation EXCEPT ![h] = "transcribing"]
            /\ UNCHANGED <<keyFetches, clientCalls>>
    /\ UNCHANGED <<jobFrame, geminiClient, openaiClient, constructed>>

\* the chunks of the job are sent through openaiClient, and the loop ends
Transcribe(h) ==
    /\ invocation[h] = "transcribing"
    /\ clientCalls' = clientCalls \cup {[by |-> h, client |-> "openai", ready |-> openaiClient]}
    /\ invocation' = [invocation EXCEPT ![h] = "gate"]
    /\ UNCHANGED <<jobFrame, geminiClient, openaiClient, constructed, keyFetches>>

\* the read of every chunk of the job fails: no request is sent, the loop
\* ends and the gate throws
ReadFail(h) ==
    /\ invocation[h] = "transcribing"
    /\ invocation' = [invocation EXCEPT ![h] = "thrown"]
    /\ UNCHANGED <<jobFrame, geminiClient, openaiClient, constructed, keyFetches, clientCalls>>

\* the gate throws
GateThrows(h) ==
    /\ invocation[h] = "gate"
    /\ invocation' = [invocation EXCEPT ![h] = "thrown"]
    /\ UNCHANGED <<jobFrame, geminiClient, openaiClient, constructed, keyFetches, clientCalls>>

\* the gate passes: analyzeTopicsWithTimestamps asks for the key without the
\* segmentation client, and sends its request with it
Analyze(h) ==
    /\ invocation[h] = "gate"
    /\ StartAnalysis(h)
    /\ UNCHANGED <<jobFrame, geminiClient, openaiClient, constructed>>

\* getGeminiApiKey returns: the client is constructed and the request is sent
SegmentationKeyOk(h) ==
    /\ invocation[h] = "geminiKey"
    /\ geminiClient' = TRUE
    /\ constructed' = [constructed EXCEPT !.gemini = @ + 1]
    /\ clientCalls' = clientCalls \cup {[by |-> h, client |-> "gemini", ready |-> TRUE]}
    /\ invocation' = [invocation EXCEPT ![h] = "segmenting"]
    /\ UNCHANGED <<jobFrame, openaiClient, keyFetches>>

\* getGeminiApiKey throws, or the request returns or throws: the job returns
\* (the fallback is on) and the handler uploads and returns, or throws
HandlerEnd(h, how) ==
    /\ invocation[h] \in {"geminiKey", "segmenting"}
    /\ invocation' = [invocation EXCEPT ![h] = how]
    /\ UNCHANGED <<jobFrame, geminiClient, openaiClient, constructed, keyFetches, clientCalls>>

NextProcess ==
    \/ \E h \in Invocations : HandlerStart(h)
    \/ \E h \in Invocations : OpenAIKeyOk(h)
    \/ \E h \in Invocations : HandlerFail(h)
    \/ \E h \in Invocations, size \in ProcessSizes : DownloadOk(h, size)
    \/ \E h \in Invocations : Transcribe(h)
    \/ \E h \in Invocations : ReadFail(h)
    \/ \E h \in Invocations : GateThrows(h)
    \/ \E h \in Invocations : Analyze(h)
    \/ \E h \in Invocations : SegmentationKeyOk(h)
    \/ \E h \in Invocations, how \in {"returned", "thrown"} : HandlerEnd(h, how)

SpecProcess == InitProcess /\ [][NextProcess]_vars

(***************************************************************************)
(* The chunk configuration: getOptimizedChunkConfig of the download stage  *)
(* and the batch loop of the transcription stage that runs with it.        *)
(***************************************************************************)
OPTIMAL_CHUNK_SIZE == 5242880
MAX_CONCURRENT_REQUESTS == 5

\* audioStats.size / 1024 / 1024: the double with the significand of the
\* size and the exponent moved down by 20, which is exact
MegaBytes(size) == [significand |-> size, exponent |-> -20]

\* audioSizeInMB * 1024 * 1024: the exponent moved up by 20, exact as well
TimesMega(mb) == [significand |-> mb.significand, exponent |-> mb.exponent + 20]

\* a / b for integers a >= 0 and b > 0, as a double: BlockLen digits of
\* integer part, then the digits after the point
QuotientD(a, b) ==
    LET fraction == FractionBits(a % b, b, DblLen + BlockLen)
    IN  RoundD(IntDigits(a \div b, BlockLen) \o fraction.digits, fraction.inexact)

\* the configuration with Math.floor in the place of Math.ceil
getOptimizedChunkConfig_Floor(audioSizeInMB) ==
    LET bytes == TimesMega(audioSizeInMB)
        estimatedChunks ==
            IntValue(SubSeq(QuotientD(bytes.significand * Pow2(bytes.exponent),
                                      OPTIMAL_CHUNK_SIZE), 1, BlockLen))
    IN  [chunkSize |-> OPTIMAL_CHUNK_SIZE,
         concurrentRequests |-> Min(MAX_CONCURRENT_REQUESTS, estimatedChunks)]

getOptimizedChunkConfig(audioSizeInMB) ==
    LET bytes == TimesMega(audioSizeInMB)
        estimatedChunks ==
            CeilD(QuotientD(bytes.significand * Pow2(bytes.exponent), OPTIMAL_CHUNK_SIZE))
        optimalConcurrency == Min(MAX_CONCURRENT_REQUESTS, estimatedChunks)
    IN  [chunkSize |-> OPTIMAL_CHUNK_SIZE, concurrentRequests |-> optimalConcurrency]

\* audio sizes around the multiples of the chunk size
ConfigSizes ==
    {n * OPTIMAL_CHUNK_SIZE + d :
        n \in 0..MaxConfigChunks, d \in {0, 1, MinChunkBytes, OPTIMAL_CHUNK_SIZE - 1}}

\* the transcription stage has not taken a configuration yet: 0 is in the
\* place of its chunk size and of its concurrency
InitConfig ==
    /\ fileSize \in ConfigSizes
    /\ chunkSize = 0
    /\ concurrentRequests = 0
    /\ phase = "config"
    /\ Idle
    /\ fnIn = None
    /\ fnOut = None
    /\ enableFallback = TRUE
    /\ geminiClient = FALSE
    /\ TopicsIdle
    /\ FlowIdle
    /\ OneJob

\* the download stage measures the audio file and computes the configuration
ConfigCall ==
    /\ phase = "config"
    /\ fnIn' = MegaBytes(fileSize)
    /\ fnOut' = getOptimizedChunkConfig(MegaBytes(fileSize))
    /\ phase' = "configured"
    /\ UNCHANGED <<fileSize, chunkSize, concurrentRequests, chunks, batchStart, tpc,
                   retryCount, backoffTime, caught, settled, attempts, sleeps, outcome,
                   transcriptionResults, failedChunks, gate, topicVars, processVars,
                   audioFile, flowVars>>

\* the transcription stage takes the configuration, plans the chunks and
\* enters its batch loop
ConfigPlan ==
    /\ phase = "configured"
    /\ chunkSize' = fnOut.chunkSize
    /\ concurrentRequests' = fnOut.concurrentRequests
    /\ chunks' = PlanChunks(fileSize, fnOut.chunkSize)
    /\ batchStart' = 0
    /\ phase' = "loop"
    /\ UNCHANGED <<fileSize, tpc, retryCount, backoffTime, caught, settled, attempts,
                   sleeps, outcome, transcriptionResults, failedChunks, gate, fnIn,
                   fnOut, topicVars, processVars, audioFile, flowVars>>

\* one batch of the loop has been collected: i += concurrentRequests
ConfigBatch ==
    /\ phase = "loop"
    /\ batchStart < Len(chunks)
    /\ batchStart' = batchStart + concurrentRequests
    /\ UNCHANGED <<fileSize, chunkSize, concurrentRequests, phase, chunks, tpc,
                   retryCount, backoffTime, caught, settled, attempts, sleeps, outcome,
                   transcriptionResults, failedChunks, gate, fnIn, fnOut, topicVars,
                   processVars, audioFile, flowVars>>

\* i < chunks.length is false: the loop ends
ConfigLoopEnd ==
    /\ phase = "loop"
    /\ batchStart >= Len(chunks)
    /\ phase' = "looped"
    /\ UNCHANGED <<batchVars, fnIn, fnOut, topicVars, processVars, audioFile, flowVars>>

NextConfig ==
    \/ ConfigCall
    \/ ConfigPlan
    \/ ConfigBatch
    \/ ConfigLoopEnd

SpecConfig == InitConfig /\ [][NextConfig]_vars

\* the steps of the batch loop
ConfigLoops == ConfigBatch \/ ConfigLoopEnd

\* WF_vars(ConfigCall) and WF_vars(ConfigPlan): each is code that runs
\* without waiting, is enabled exactly in its phase and leaves that phase for
\* good, so the condition is that the job is in neither phase for ever
ConfigRuns == []<>(phase \notin {"config", "configured"})

\* the configuration is computed and taken, and a batch that was launched is
\* collected
FairConfig == SpecConfig /\ WF_vars(ConfigLoops) /\ ConfigRuns

(***************************************************************************)
(* The content table: saveToDynamoDB and validateContentPosition, called   *)
(* by any number of invocations at a time.                                 *)
(***************************************************************************)
MAX_ATTEMPTS == 100

\* the state of the transcription handler and of its process
handlerVars == <<jobVars, fnIn, fnOut, topicVars, processVars, audioFile>>

ParentId == "1"
FirstIndex == 1

\* `${parentId}.${orderIndex}`: the parent, a dot and the digits of the
\* index, which hold no dot, so that two ids are one exactly when their
\* parents and their indices are
ContentId(parentId, orderIndex) == <<parentId, orderIndex>>

\* the item a call puts; writer is the call that put it (0: it was there
\* before), which stands for what tells two items apart, createdAt
Item(contentId, orderIndex, topicsKey, writer) ==
    [contentType |-> "CONTENT#VIDEO", contentId |-> contentId,
     orderIndex |-> orderIndex, parentId |-> contentId[1],
     topicSegments |-> topicsKey, writer |-> writer]

\* saveToDynamoDB is entered with metadata.orderIndex = orderIndex:
\* validateContentPosition is about to check the intended position
NewCall(orderIndex) ==
    [pc |-> "check", orderIndex |-> orderIndex, candidate |-> orderIndex,
     attempts |-> 0, adjusted |-> FALSE, result |-> None]

\* what a GetCommand may find under id: the read is eventually consistent,
\* so an item that was put during the run may not be seen yet
Reads(id) ==
    IF id \notin DOMAIN table THEN {FALSE}
    ELSE IF table[id].writer = 0 THEN {TRUE}
    ELSE {TRUE, FALSE}

\* checkIfContentIdExists returns for the position the call is checking:
\* a free position is taken for the put, after a taken one the next
\* candidate is checked
SaveCheck(p, found) ==
    /\ save[p].pc = "check"
    /\ ~save[p].adjusted \/ save[p].attempts < MAX_ATTEMPTS
    /\ found \in Reads(ContentId(ParentId, save[p].candidate))
    /\ save' = [save EXCEPT ![p] =
                   IF ~found THEN [@ EXCEPT !.pc = "put"]
                   ELSE IF ~@.adjusted
                        THEN [@ EXCEPT !.adjusted = TRUE,
                                       !.candidate = save[p].orderIndex + 1,
                                       !.attempts = 0]
                        ELSE [@ EXCEPT !.candidate = @ + 1, !.attempts = @ + 1]]
    /\ UNCHANGED <<handlerVars, wf, table>>

\* MAX_ATTEMPTS candidates were taken: validateContentPosition throws
SaveExhausted(p) ==
    /\ save[p].pc = "check"
    /\ save[p].adjusted
    /\ save[p].attempts >= MAX_ATTEMPTS
    /\ save' = [save EXCEPT ![p].pc = "thrown"]
    /\ UNCHANGED <<handlerVars, wf, table>>

\* positionResult.adjustedOrderIndex || metadata.orderIndex
FinalOrderIndex(call) ==
    IF call.adjusted /\ call.candidate # 0 THEN call.candidate ELSE call.orderIndex

\* a put without the condition: the item replaces the one that is there
SavePut_Overwrite(p, topicsKey) ==
    /\ save[p].pc = "put"
    /\ LET id == ContentId(ParentId, save[p].candidate)
           item == Item(id, FinalOrderIndex(save[p]), topicsKey, p)
       IN  /\ table' = [i \in DOMAIN table \cup {id} |-> IF i = id THEN item ELSE table[i]]
           /\ save' = [save EXCEPT ![p].pc = "returned", ![p].result = id]
    /\ UNCHANGED <<handlerVars, wf>>

\* the PutCommand returns: the item is put when no item has its contentId;
\* when one has, the condition fails and saveToDynamoDB calls itself with
\* the next orderIndex
SavePut(p, topicsKey) ==
    /\ save[p].pc = "put"
    /\ LET id == ContentId(ParentId, save[p].candidate)
           final == FinalOrderIndex(save[p])
       IN  IF id \notin DOMAIN table
           THEN /\ table' = (id :> Item(id, final, topicsKey, p)) @@ table
                /\ save' = [save EXCEPT ![p].pc = "returned", ![p].result = id]
           ELSE /\ save' = [save EXCEPT ![p] = NewCall(final + 1)]
                /\ UNCHANGED table
    /\ UNCHANGED <<handlerVars, wf>>

\* the GetCommand or the PutCommand throws another error: the call throws
SaveError(p) ==
    /\ save[p].pc \in {"check", "put"}
    /\ save' = [save EXCEPT ![p].pc = "thrown"]
    /\ UNCHANGED <<handlerVars, wf, table>>

\* nothing of the transcription handler is followed
NoJob ==
    /\ fileSize = 0
    /\ chunkSize = OPTIMAL_CHUNK_SIZE
    /\ concurrentRequests = 1
    /\ Idle
    /\ fnIn = None
    /\ fnOut = None
    /\ enableFallback = TRUE
    /\ geminiClient = FALSE
    /\ TopicsIdle
    /\ OneJob

\* the items that are there before the calls: any of the first positions
\* taken, or, before one call, more positions than a call looks at
Taken(n) ==
    {[id \in {ContentId(ParentId, i) : i \in taken} |->
          Item(id, id[2], TopicsKey, 0)] :
        taken \in SUBSET (FirstIndex..(FirstIndex + MaxTaken - 1))}
    \cup (IF n = 1
          THEN {[id \in {ContentId(ParentId, i) :
                            i \in FirstIndex..(FirstIndex + MAX_ATTEMPTS)} |->
                     Item(id, id[2], TopicsKey, 0)]}
          ELSE {})

InitSave ==
    /\ NoJob
    /\ phase = "save"
    /\ wf = None
    /\ \E n \in 1..MaxCalls :
        /\ save = [p \in 1..n |-> NewCall(FirstIndex)]
        /\ table \in Taken(n)

NextSave ==
    \/ \E p \in DOMAIN save, found \in BOOLEAN : SaveCheck(p, found)
    \/ \E p \in DOMAIN save : SaveExhausted(p)
    \/ \E p \in DOMAIN save : SavePut(p, TopicsKey)
    \/ \E p \in DOMAIN save : SaveError(p)

SpecSave == InitSave /\ [][NextSave]_vars

(***************************************************************************)
(* The workflow: the state machine of statemachine.asl.yml, with the       *)
(* handler of the keyword stage followed through its call of               *)
(* saveToDynamoDB.                                                         *)
(***************************************************************************)
Stages == <<"DownloadAndExtract", "TranscribeChunks", "AnalyzeGetKeywords", "GenerateHtml">>
Notifiers == {"NotifySuccess", "HandleError"}
States == {Stages[k] : k \in DOMAIN Stages} \cup Notifiers

\* MaxAttempts of the two retriers of a state
MaxAttempts(state) ==
    IF state \in {"DownloadAndExtract", "NotifySuccess", "HandleError"} THEN 2 ELSE 3

\* Next of a state, "" for a state with End: true
NextOf(state) ==
    CASE state = "DownloadAndExtract" -> "TranscribeChunks"
      [] state = "TranscribeChunks" -> "AnalyzeGetKeywords"
      [] state = "AnalyzeGetKeywords" -> "GenerateHtml"
      [] state = "GenerateHtml" -> "NotifySuccess"
      [] OTHER -> ""

\* the paths the Parameters of a state take from its input
Paths(state) ==
    CASE state = "DownloadAndExtract" ->
             {"fileKey", "sourceBucket", "tempPath", "audioPath", "metadata",
              "outputBucket", "fileExtension"}
      [] state = "TranscribeChunks" ->
             {"fileKey", "audioKey", "outputBucket", "metadata", "chunkConfig",
              "fileExtension"}
      [] state = "AnalyzeGetKeywords" ->
             {"outputBucket", "outputKey", "transcription", "metadata", "fileKey",
              "transcriptionKey", "topicsKey"}
      [] state = "GenerateHtml" ->
             {"transcription", "metadata", "fileKey", "outputKey", "contentId",
              "keyphrases", "videoUrl"}
      [] state = "NotifySuccess" -> {"fileKey", "videoUrl"}
      [] state = "HandleError" -> {"fileKey", "error"}

AudioBucket == Str("audio")

\* the fields the Parameters of a state give a value of their own
Literals(state) ==
    CASE state \in {"DownloadAndExtract", "TranscribeChunks"} -> [audioBucket |-> AudioBucket]
      [] state = "NotifySuccess" -> [isError |-> FALSE, executionId |-> Str("execution")]
      [] state = "HandleError" -> [isError |-> TRUE, executionId |-> Str("execution")]
      [] OTHER -> [f \in {} |-> Null]

\* the Payload of a state: the fields its Parameters take from the input
\* and those they give a value
Payload(state, input) == Literals(state) @@ [f \in Paths(state) |-> input[f]]

\* what the initialize function starts an execution with
ExecutionInput ==
    [fileKey |-> Str("video/a.mp4"), sourceBucket |-> Str("media"),
     outputBucket |-> Str("media"), tempPath |-> Str("/tmp/a.mp4"),
     audioPath |-> Str("/tmp/a.mp3"),
     metadata |-> [parentId |-> ParentId, orderIndex |-> FirstIndex],
     fileExtension |-> Str("mp4")]

\* the errors of a task: the service cannot run the function, or the
\* function throws
ServiceException == [Error |-> "Lambda.ServiceException"]
FunctionError(message) == [Error |-> "Error", Cause |-> message]
MissingInput == FunctionError("Missing transcription or topics S3 key in Step Function payload")
MissingContent == FunctionError("Missing transcription or contentId in Step Function payload")
CallFailed == FunctionError("a call of the handler threw")

\* the retrier of a state that matches the error: the first one names the
\* errors of the service, the second one is States.ALL
Retrier(error) == IF error.Error = "Lambda.ServiceException" THEN "lambda" ELSE "all"

NoRetries == [lambda |-> 0, all |-> 0]

\* a stage whose retries are used goes on to its Next state
Failed_Continue(error) ==
    LET retrier == Retrier(error)
    IN  IF wf.retried[retrier] < MaxAttempts(wf.state)
        THEN [wf EXCEPT !.retried[retrier] = @ + 1, !.step = "invoke"]
        ELSE IF wf.state \in Notifiers
             THEN [wf EXCEPT !.state = "Failed", !.step = "ended"]
             ELSE [wf EXCEPT !.state = NextOf(wf.state),
                             !.input = [error |-> error] @@ wf.input,
                             !.retried = NoRetries, !.step = "invoke",
                             !.visited = Append(@, NextOf(wf.state)),
                             !.caught = [state |-> wf.state, error |-> error]]

\* the task of the current state failed with error: it is retried while its
\* retrier has attempts left, then a stage is caught (the error is put in
\* $.error of its input and HandleError is entered) and a notifier, which
\* has no Catch, fails the execution
Failed(error) ==
    LET retrier == Retrier(error)
    IN  IF wf.retried[retrier] < MaxAttempts(wf.state)
        THEN [wf EXCEPT !.retried[retrier] = @ + 1, !.step = "invoke"]
        ELSE IF wf.state \in Notifiers
             THEN [wf EXCEPT !.state = "Failed", !.step = "ended"]
             ELSE [wf EXCEPT !.state = "HandleError",
                             !.input = [error |-> error] @@ wf.input,
                             !.retried = NoRetries, !.step = "invoke",
                             !.visited = Append(@, "HandleError"),
                             !.caught = [state |-> wf.state, error |-> error]]

\* the task of the current state returned output (OutputPath $.Payload)
Succeeded_Task(output) ==
    LET done == [wf EXCEPT !.succeeded = Append(@, wf.state)]
    IN  IF NextOf(wf.state) = ""
        THEN [done EXCEPT !.state = "Succeeded", !.step = "ended"]
        ELSE [done EXCEPT !.state = NextOf(wf.state), !.input = output,
                          !.retried = NoRetries, !.step = "invoke",
                          !.visited = Append(@, NextOf(wf.state))]

\* the task of state is about to invoke its function
AtTask(state) ==
    /\ phase = "workflow"
    /\ wf.state = state
    /\ wf.step = "invoke"
    /\ Paths(state) \subseteq DOMAIN wf.input

\* a JavaScript value is truthy: a text or an id that is not empty, a key
\* that is neither null nor empty
TruthyText(v) == v # << >>
Truthy(v) == v # Null /\ v # Str("")

\* the service cannot run the function of the state
ServiceFails(state) ==
    /\ AtTask(state)
    /\ wf' = Failed(ServiceException)
    /\ UNCHANGED <<handlerVars, table, save>>

\* the sizes of the audio the download stage extracts: empty, of one chunk,
\* and of one chunk and a megabyte
WorkflowSizes == {0, OPTIMAL_CHUNK_SIZE, OPTIMAL_CHUNK_SIZE + Pow2(20)}

\* the download stage extracts an audio file of size bytes, uploads it and
\* returns its event with the size in megabytes, the audio key and the
\* configuration of that size
DownloadReturns(size) ==
    /\ AtTask("DownloadAndExtract")
    /\ wf' = [Succeeded_Task(
                  [videoDownloaded |-> TRUE, audioExtracted |-> TRUE,
                   audioSizeMB |-> MegaBytes(size),
                   audioKey |-> Str("audio/a.mp3"),
                   chunkConfig |-> getOptimizedChunkConfig(MegaBytes(size))]
                  @@ Payload("DownloadAndExtract", wf.input))
              EXCEPT !.audio = size]
    /\ UNCHANGED <<handlerVars, table, save>>

\* the function of a stage throws
StageThrows(state) ==
    /\ AtTask(state)
    /\ state \in {"DownloadAndExtract", "TranscribeChunks"}
    /\ wf' = Failed(CallFailed)
    /\ UNCHANGED <<handlerVars, table, save>>

\* how the segmentation of a job may end: with the topics, with the error of
\* a failed request, and with the error of the answer null
AnalysisOutcomes ==
    {[analysis |-> JSONParse(ContentSegments).value, error |-> Null],
     [analysis |-> Null, error |-> ConnectionError.message],
     [analysis |-> Null, error |-> NullError.message]}

\* what transcribeAudioWithTopics returns for an audio file of size bytes
\* whose chunks are all transcribed, the segmentation ending as ending says
EnhancedOutcomes(size, config, ending) ==
    LET plan == PlanChunks(size, config.chunkSize)
        results == [c \in 1..Len(plan) |-> SuccessResult(c - 1, TranscriptionOf(c - 1))]
    IN  CombineResults(results, ending.analysis, ending.error)

\* the transcription stage returns its event with the result of the handler
TranscribeReturns(ending) ==
    /\ AtTask("TranscribeChunks")
    /\ LET event == Payload("TranscribeChunks", wf.input)
           enhanced == EnhancedOutcomes(wf.audio, event.chunkConfig, ending)
       IN  wf' = Succeeded_Task(
                     HandlerResult(enhanced,
                                   IF TopicsData(enhanced) # Null THEN TopicsKey ELSE Null)
                     @@ event)
    /\ UNCHANGED <<handlerVars, table, save>>

\* the handler of the keyword stage is invoked: it throws without a
\* transcription or without a topics key, and calls saveToDynamoDB with them
AnalyzeInvoke ==
    /\ AtTask("AnalyzeGetKeywords")
    /\ LET event == Payload("AnalyzeGetKeywords", wf.input)
       IN  IF ~TruthyText(event.transcription) \/ ~Truthy(event.topicsKey)
           THEN /\ wf' = Failed(MissingInput)
                /\ UNCHANGED save
           ELSE /\ wf' = [wf EXCEPT !.step = "saving"]
                /\ save' = Append(save, NewCall(event.metadata.orderIndex))
    /\ UNCHANGED <<handlerVars, table>>

\* the call of saveToDynamoDB of the invocation that is running
Saving ==
    /\ phase = "workflow"
    /\ wf.state = "AnalyzeGetKeywords"
    /\ wf.step = "saving"

\* what is left of a call of saveToDynamoDB when its invocation ended: how
\* it ended and what it returned
Outcome(call) == [NewCall(FirstIndex) EXCEPT !.pc = call.pc, !.result = call.result]

\* the calls when the invocation that is running ends
SaveEnded == [save EXCEPT ![Len(save)] = Outcome(@)]

\* saveToDynamoDB threw: the handler throws
AnalyzeSaveThrew ==
    /\ Saving
    /\ save[Len(save)].pc = "thrown"
    /\ wf' = Failed(CallFailed)
    /\ save' = SaveEnded
    /\ UNCHANGED <<handlerVars, table>>

\* saveToDynamoDB returned the contentId, and the keyphrase request, the
\* parsing of its answer or the upload of the keyphrases throws
AnalyzeThrows ==
    /\ Saving
    /\ save[Len(save)].pc = "returned"
    /\ wf' = Failed(CallFailed)
    /\ save' = SaveEnded
    /\ UNCHANGED <<handlerVars, table>>

\* saveToDynamoDB returned the contentId and the keyphrases were made and
\* uploaded: the handler returns
AnalyzeReturns ==
    /\ Saving
    /\ save[Len(save)].pc = "returned"
    /\ LET event == Payload("AnalyzeGetKeywords", wf.input)
           key == IF Truthy(event.outputKey) THEN event.outputKey ELSE event.fileKey
       IN  wf' = Succeeded_Task(
                     [statusCode |-> 200, contentId |-> save[Len(save)].result,
                      keyphrases |-> <<"k">>, fileKey |-> key,
                      metadata |-> [videoKey |-> event.fileKey] @@ event.metadata,
                      videoUrl |-> Str("https://cdn/video/a.mp4"),
                      transcription |-> event.transcription,
                      outputKey |-> key])
    /\ save' = SaveEnded
    /\ UNCHANGED <<handlerVars, table>>

\* the handler of the content stage is invoked and returns
GenerateReturns ==
    /\ AtTask("GenerateHtml")
    /\ LET event == Payload("GenerateHtml", wf.input)
           key == IF Truthy(event.outputKey) THEN event.outputKey ELSE event.fileKey
       IN  /\ TruthyText(event.transcription)
           /\ TruthyText(event.contentId)
           /\ wf' = Succeeded_Task(
                        [statusCode |-> 200, fileKey |-> key,
                         metadata |-> event.metadata, contentId |-> event.contentId,
                         transcription |-> event.transcription,
                         keyphrases |-> event.keyphrases, videoUrl |-> event.videoUrl,
                         outputKey |-> event.outputKey])
    /\ UNCHANGED <<handlerVars, table, save>>

\* the handler of the content stage throws: without a transcription or a
\* contentId it always does
GenerateThrows ==
    /\ AtTask("GenerateHtml")
    /\ LET event == Payload("GenerateHtml", wf.input)
       IN  wf' = Failed(IF ~TruthyText(event.transcription) \/ ~TruthyText(event.contentId)
                        THEN MissingContent ELSE CallFailed)
    /\ UNCHANGED <<handlerVars, table, save>>

\* the notification of a notifier is sent
NotifyReturns(state) ==
    /\ state \in Notifiers
    /\ AtTask(state)
    /\ wf' = Succeeded_Task(Payload(state, wf.input))
    /\ UNCHANGED <<handlerVars, table, save>>

\* the handler of a notifier throws
NotifyThrows(state) ==
    /\ state \in Notifiers
    /\ AtTask(state)
    /\ wf' = Failed(CallFailed)
    /\ UNCHANGED <<handlerVars, table, save>>

InitWorkflow ==
    /\ NoJob
    /\ phase = "workflow"
    /\ wf = [state |-> "DownloadAndExtract", input |-> ExecutionInput,
             retried |-> NoRetries, step |-> "invoke",
             visited |-> <<"DownloadAndExtract">>, succeeded |-> << >>,
             caught |-> None, audio |-> None]
    /\ save = << >>
    /\ table \in Taken(1)

\* the steps of the call of saveToDynamoDB of the keyword stage
SaveSteps ==
    /\ Saving
    /\ \/ \E found \in BOOLEAN : SaveCheck(Len(save), found)
       \/ SaveExhausted(Len(save))
       \/ SavePut(Len(save), wf.input.topicsKey)
       \/ SaveError(Len(save))

NextWorkflow ==
    \/ \E state \in States : ServiceFails(state)
    \/ \E size \in WorkflowSizes : DownloadReturns(size)
    \/ \E state \in {"DownloadAndExtract", "TranscribeChunks"} : StageThrows(state)
    \/ \E ending \in AnalysisOutcomes : TranscribeReturns(ending)
    \/ AnalyzeInvoke
    \/ SaveSteps
    \/ AnalyzeSaveThrew
    \/ AnalyzeThrows
    \/ AnalyzeReturns
    \/ GenerateReturns
    \/ GenerateThrows
    \/ \E state \in Notifiers : NotifyReturns(state)
    \/ \E state \in Notifiers : NotifyThrows(state)

SpecWorkflow == InitWorkflow /\ [][NextWorkflow]_vars

(***************************************************************************)
(* Claims.                                                                 *)
(***************************************************************************)
Decided == phase \in {"passed", "failed"}
Successes == Cardinality({c \in DOMAIN outcome : outcome[c] = "success"})

\* the thresholds of the chunk counts up to 10, as fractions
ThresholdNum(t) == IF t <= 3 THEN 1 ELSE IF t <= 5 THEN 4 ELSE 7
ThresholdDen(t) == IF t <= 3 THEN 1 ELSE IF t <= 5 THEN 5 ELSE 10

\* C1: once every chunk has ended, the job fails with the insufficient-success
\* error exactly when successfulChunks/totalChunks is below
\* calculateSuccessThreshold(totalChunks), both as the doubles the code
\* computes; a ratio equal to the threshold proceeds.  Up to 10 chunks that is
\* the comparison of the exact fractions.  5 chunks: 4 successes proceed,
\* 3 successes fail.
C1_GateDecision ==
    Decided =>
        LET t == Len(chunks)
            ok == Successes
        IN  /\ (phase = "failed") <=> LessD(DivD(ok, t), calculateSuccessThreshold(t))
            /\ (1 <= t /\ t <= 10) =>
                   ((phase = "failed") <=> (ok * ThresholdDen(t) < ThresholdNum(t) * t))
            /\ (t = 5 /\ ok = 4) => phase = "passed"
            /\ (t = 5 /\ ok = 3) => phase = "failed"

C1_Witness == phase = "passed" /\ Len(chunks) = 5 /\ Successes = 4

\* C2: calculateSuccessThreshold(t) is 1.0 for t <= 3, 0.8 for t in {4, 5},
\* 0.7 for t in 6..10 and max(0.6, 1 - 3/t) for t > 10; threshold(3) = 1,
\* threshold(4) = 4/5, threshold(10) = 7/10, threshold(11) = 8/11 and
\* threshold(1000) = 997/1000, each the double of that fraction.
C2_ThresholdValues ==
    /\ gate # None =>
          LET t == gate.totalChunks
          IN  /\ t <= 3 => gate.requiredThreshold = DOne
              /\ t \in {4, 5} => gate.requiredThreshold = DivD(4, 5)
              /\ t \in 6..10 => gate.requiredThreshold = DivD(7, 10)
              /\ t > 10 => gate.requiredThreshold = MaxD(DivD(3, 5), SubD(DOne, DivD(3, t)))
              /\ t = 11 => gate.requiredThreshold = DivD(8, 11)
    /\ calculateSuccessThreshold(3) = DOne
    /\ calculateSuccessThreshold(4) = DivD(4, 5)
    /\ calculateSuccessThreshold(10) = DivD(7, 10)
    /\ calculateSuccessThreshold(11) = DivD(8, 11)
    /\ calculateSuccessThreshold(1000) = DivD(997, 1000)

C2_Witness == gate # None /\ gate.totalChunks = 11

\* C3: the totalChunks of the gate counts the chunks submitted for
\* transcription, a chunk dropped for being under 4096 bytes is left out of
\* it: a job whose submitted chunks all succeeded, with only a chunk under the
\* minimum dropped, passes the gate.
C3_DroppedChunkNotCounted ==
    (/\ Decided
     /\ \E c \in DOMAIN outcome : outcome[c] = "success"
     /\ \A c \in DOMAIN outcome : outcome[c] \in {"success", "dropped"})
    => /\ gate.totalChunks = Successes
       /\ phase = "passed"

\* C4: for a file size N > 0 and a chunk size C > 0 the planned chunks have
\* the indices 0..count-1 in order, the first starts at byte 0, each starts
\* where the one before ends, the last ends at N, each has 0 < end - start <= C,
\* and count = ceil(N/C).
C4_PlanCoversFile ==
    (phase # "start" /\ fileSize > 0) =>
        /\ Len(chunks) = (fileSize + chunkSize - 1) \div chunkSize
        /\ chunks[1].start = 0
        /\ chunks[Len(chunks)].end = fileSize
        /\ \A k \in 1..Len(chunks) :
              /\ chunks[k].index = k - 1
              /\ 0 < chunks[k].end - chunks[k].start
              /\ chunks[k].end - chunks[k].start <= chunkSize
              /\ k > 1 => chunks[k].start = chunks[k - 1].end

C4_Witness ==
    /\ phase # "start"
    /\ Len(chunks) >= 3
    /\ chunks[Len(chunks)].end - chunks[Len(chunks)].start < chunkSize

Running(c) == tpc[c] \in {"fetching", "calling", "sleeping"}
FailedValue(c) ==
    tpc[c] = "settled" /\ ValueTruthy(settled[c]) /\ ~settled[c].value.success

\* C5: whatever transient errors occur, a chunk is sent to the transcription
\* service at most 4 times; when all 4 requests failed its result has
\* success = false, is not marked permanent and carries the error of the
\* last request.
C5_BoundedRetry ==
    \A c \in DOMAIN tpc :
        /\ attempts[c] <= 4
        /\ (attempts[c] = 4 /\ tpc[c] = "settled" /\ caught[c] # None
            /\ caught[c].status \notin {400, 401, 403, 413}) =>
               /\ settled[c].status = "fulfilled"
               /\ settled[c].value.success = FALSE
               /\ "permanent" \notin DOMAIN settled[c].value
               /\ settled[c].value.error = caught[c]
        /\ (FailedValue(c) /\ ~ValuePermanent(settled[c].value)) =>
               /\ attempts[c] = 4
               /\ sleeps[c] = 3

C5_Witness ==
    \E c \in DOMAIN tpc :
        /\ FailedValue(c)
        /\ ~ValuePermanent(settled[c].value)
        /\ attempts[c] = 4
        /\ settled[c].value.error.status = 429

\* C6: a request that fails with status 400, 401, 403 or 413, the first or a
\* later one of its chunk, ends the chunk at once: its result has
\* success = false and permanent = true, and no request and no sleep follows.
C6_PermanentState ==
    \A c \in DOMAIN tpc :
        (caught[c] # None /\ caught[c].status \in {400, 401, 403, 413}) =>
            /\ tpc[c] = "settled"
            /\ settled[c] = Fulfilled([success |-> FALSE, error |-> caught[c],
                                       index |-> c, permanent |-> TRUE])
            /\ sleeps[c] = attempts[c] - 1

C6_PermanentStep ==
    \A c \in DOMAIN tpc :
        (caught[c] # None /\ caught[c].status \in {400, 401, 403, 413}) =>
            /\ attempts'[c] <= attempts[c]
            /\ sleeps'[c] <= sleeps[c]
            /\ tpc'[c] \in {"settled", "done"}

C6_PermanentNoRetry == []C6_PermanentState /\ [][C6_PermanentStep]_vars

C6_Witness ==
    \E c \in DOMAIN tpc :
        /\ FailedValue(c)
        /\ ValuePermanent(settled[c].value)
        /\ settled[c].value.error.status = 413
        /\ attempts[c] = 3

\* C7: after a failure of the request with retry counter a (0, 1, 2) whose
\* status is none of 400, 401, 403, 413, 429, the chunk sleeps 2^a * 1000 ms
\* (1000, 2000, 4000), and the next request is not sent while it sleeps.
C7_ExponentialBackoff ==
    \A c \in DOMAIN tpc :
        (tpc[c] = "sleeping" /\ caught[c].status \notin {400, 401, 403, 413, 429}) =>
            /\ retryCount[c] \in 0..2
            /\ retryCount[c] = 0 => backoffTime[c] = 1000
            /\ retryCount[c] = 1 => backoffTime[c] = 2000
            /\ retryCount[c] = 2 => backoffTime[c] = 4000
            /\ attempts[c] = retryCount[c] + 1
            /\ sleeps[c] = retryCount[c] + 1

C7_Witness ==
    \E c \in DOMAIN tpc :
        /\ tpc[c] = "sleeping"
        /\ caught[c].status = 500
        /\ retryCount[c] = 2
        /\ backoffTime[c] = 4000

\* the time in ms a reset hint states: a number of ms, or a number with the
\* unit ms, s or m
HintMs(str) ==
    LET n == Cardinality({k \in 1..Len(str) : \A j \in 1..k : str[j] \in Digits})
        unit == SubSeq(str, n + 1, Len(str))
        scale == IF unit = <<"s">> THEN 1000 ELSE IF unit = <<"m">> THEN 60000 ELSE 1
    IN  DigitPrefix(str, 0) * scale

\* C8: after a failure with status 429 that leaves a retry, the wait is the
\* time the reset hint of the error's headers states when there is one
\* (1500 -> 1500 ms), and 2000 ms when there is none.
C8_RateLimitWait ==
    \A c \in DOMAIN tpc :
        (tpc[c] = "sleeping" /\ caught[c].status = 429) =>
            IF ResetHeader \in DOMAIN caught[c].headers
            THEN backoffTime[c] = HintMs(caught[c].headers[ResetHeader])
            ELSE backoffTime[c] = 2000

\* C9: at most concurrentRequests chunk operations run at any moment, and no
\* chunk of a batch starts before every chunk of the batches before it has
\* ended.
C9_BoundedConcurrency ==
    /\ Cardinality({c \in DOMAIN tpc : Running(c)}) <= concurrentRequests
    /\ \A c, d \in DOMAIN tpc :
           (tpc[c] # "idle" /\ (d \div concurrentRequests) < (c \div concurrentRequests))
               => tpc[d] = "done"

C9_Witness ==
    /\ concurrentRequests = 2
    /\ Cardinality({c \in DOMAIN tpc : Running(c)}) = 2
    /\ \E c \in DOMAIN tpc : tpc[c] = "idle"
    /\ \E c \in DOMAIN tpc : tpc[c] = "sleeping"

\* C10: a chunk that fails (permanently, by exhausting its retries, or by a
\* read error) neither cancels nor holds back a chunk of its batch: each
\* running chunk can take its next step, the batch is collected only when all
\* its chunks have ended, and every chunk that succeeded is in its slot of the
\* results.
C10_FailureIsolation ==
    \A c \in DOMAIN tpc :
        /\ tpc[c] = "calling" => ENABLED TranscribeOk(c)
        /\ tpc[c] = "sleeping" => ENABLED Wake(c)
        /\ tpc[c] = "fetching" => ENABLED (ChunkTooSmall(c) \/ ChunkRead(c))
        /\ outcome[c] = "success" =>
               transcriptionResults[c] = SuccessResult(c, TranscriptionOf(c))
        /\ tpc[c] = "done" =>
               /\ outcome[c] # "none"
               /\ \A d \in DOMAIN tpc :
                      (d \div concurrentRequests) = (c \div concurrentRequests)
                          => tpc[d] = "done"

C10_Witness ==
    \E c, d \in DOMAIN tpc :
        /\ c # d
        /\ (d \div concurrentRequests) = (c \div concurrentRequests)
        /\ outcome[c] \in {"permanent", "exhausted", "readError"}
        /\ outcome[d] = "success"
        /\ transcriptionResults[d] = SuccessResult(d, TranscriptionOf(d))

GatePassed == gate # None /\ ~gate.failed

\* the results of the chunks that succeeded, from chunk c on, in the order of
\* the chunks: the result of a chunk is what the service answers for it
RECURSIVE SuccessesFrom(_)
SuccessesFrom(c) ==
    IF c >= Len(chunks) THEN << >>
    ELSE IF outcome[c] = "success"
         THEN <<[success |-> TRUE, index |-> c] @@ TranscriptionOf(c)>> \o SuccessesFrom(c + 1)
         ELSE SuccessesFrom(c + 1)

\* C11: the list getDetailedTranscriptionResults returns, the joined
\* transcription and the reconciled segments are determined by which chunks
\* succeeded and what the service answered for each, whatever the order in
\* which the chunks of a batch ended; the returned results are in strictly
\* increasing chunk index.
C11_OrderDeterminism ==
    GatePassed =>
        /\ returned = SuccessesFrom(0)
        /\ \A j \in 1..(Len(returned) - 1) : returned[j].index < returned[j + 1].index
        /\ phase # "passed" =>
               allSegments = Reconcile(SuccessesFrom(0), 1,
                                       [allSegments |-> << >>, totalOffset |-> 0,
                                        timeline |-> << >>]).allSegments
        /\ enhancedResults # None =>
               /\ enhancedResults.transcription = JoinTexts(SuccessesFrom(0))
               /\ enhancedResults.transcriptionResults = SuccessesFrom(0)

C11_Witness ==
    /\ GatePassed
    /\ concurrentRequests = 2
    /\ Len(returned) >= 3
    /\ Len(allSegments) >= 3
    /\ enhancedResults # None

\* the reconciliation has run
Reconciled == GatePassed /\ phase # "passed"

Succeeded(c) == outcome[c] = "success"

\* the duration the service reported for chunk c, 0 when it reported none
ReportedDuration(c) ==
    IF Succeeded(c) /\ "duration" \in DOMAIN transcriptionResults[c]
    THEN transcriptionResults[c].duration
    ELSE 0

\* the sum of the reported durations of the successful chunks below c
RECURSIVE DurationsBelow(_)
DurationsBelow(c) ==
    IF c = 0 THEN 0 ELSE DurationsBelow(c - 1) + ReportedDuration(c - 1)

\* the segments of chunk c, each moved by offset
RECURSIVE Shifted(_, _, _)
Shifted(segments, offset, c) ==
    IF segments = << >> THEN << >>
    ELSE <<[text |-> Head(segments).text, start |-> offset + Head(segments).start,
            end |-> offset + Head(segments).end, chunkIndex |-> c]>>
         \o Shifted(Tail(segments), offset, c)

\* the segments of the successful chunks from c on, each chunk's moved by the
\* durations of the successful chunks below it
RECURSIVE GlobalSegmentsFrom(_)
GlobalSegmentsFrom(c) ==
    IF c >= Len(chunks) THEN << >>
    ELSE IF Succeeded(c) /\ "segments" \in DOMAIN transcriptionResults[c]
         THEN Shifted(transcriptionResults[c].segments, DurationsBelow(c), c)
              \o GlobalSegmentsFrom(c + 1)
         ELSE GlobalSegmentsFrom(c + 1)

\* C12: each segment of a successful chunk is emitted with start = offset +
\* segment.start and end = offset + segment.end, the offset being the sum of
\* the durations the service reported for the successful chunks of smaller
\* index; chunk 0 with duration 30 and the segment {0, 5} and chunk 1 with the
\* segment {2, 8} give {0, 5} and {32, 38}.
C12_ReconciledTimes ==
    Reconciled =>
        /\ allSegments = GlobalSegmentsFrom(0)
        /\ (/\ Len(chunks) >= 2
            /\ transcriptionResults[0] = SuccessResult(0, TranscriptionA)
            /\ transcriptionResults[1] = SuccessResult(1, TranscriptionB)) =>
               /\ allSegments[1].start = 0 /\ allSegments[1].end = Sec(5)
               /\ allSegments[2].start = Sec(32) /\ allSegments[2].end = Sec(38)

\* C13: after the reconciliation the running offset, which is the duration
\* handed to getTopicCountForDuration and named in the request, is the sum of
\* the reported durations of all successful chunks, those whose result has
\* no segment list included.
C13_OffsetIsSumOfDurations ==
    Reconciled =>
        /\ totalOffset = DurationsBelow(Len(chunks))
        /\ topicCount = getTopicCountForDuration(DurationsBelow(Len(chunks)))
        /\ \A j \in 1..Len(requests) : requests[j].duration = DurationsBelow(Len(chunks))

\* C14: a chunk that was dropped, failed permanently or exhausted its retries
\* gives no segment and leaves the running offset as it was: the offset a
\* successful chunk starts with is the offset the successful chunk before it
\* ended with (0 for the first), each step of the offset is the reported
\* duration of the successful chunk it belongs to or nothing, the segments
\* of a successful chunk are moved by the offset it starts with, and where
\* every successful chunk below has a segment list that offset is the sum of
\* the durations of the successful chunks below.
C14_FailedChunkAddsNothing ==
    Reconciled =>
        /\ \A k \in 1..Len(allSegments) : Succeeded(allSegments[k].chunkIndex)
        /\ Len(timeline) = Cardinality({c \in DOMAIN outcome : Succeeded(c)})
        /\ \A j \in 1..Len(timeline) :
               LET c == timeline[j].index
                   r == transcriptionResults[c]
               IN  /\ Succeeded(c)
                   /\ timeline[j].before = IF j = 1 THEN 0 ELSE timeline[j - 1].after
                   /\ j > 1 => timeline[j - 1].index < c
                   /\ timeline[j].after - timeline[j].before \in {0, ReportedDuration(c)}
                   /\ "segments" \in DOMAIN r =>
                          \A k \in 1..Len(r.segments) :
                              \E n \in 1..Len(allSegments) :
                                  /\ allSegments[n].chunkIndex = c
                                  /\ allSegments[n].start = timeline[j].before + r.segments[k].start
                                  /\ allSegments[n].end = timeline[j].before + r.segments[k].end
                   /\ (\A d \in 0..(c - 1) :
                           Succeeded(d) => "segments" \in DOMAIN transcriptionResults[d])
                          => timeline[j].before = DurationsBelow(c)
        /\ totalOffset = IF timeline = << >> THEN 0 ELSE timeline[Len(timeline)].after

C14_Witness ==
    /\ Reconciled
    /\ \E c, d, e \in DOMAIN outcome :
           /\ c < d /\ d < e
           /\ Succeeded(c)
           /\ outcome[d] \in {"exhausted", "permanent"}
           /\ Succeeded(e)
           /\ \E n \in 1..Len(allSegments) :
                  /\ allSegments[n].chunkIndex = e
                  /\ allSegments[n].start >= Sec(30) + Sec(2)

\* C15: for a total duration d >= 0, getTopicCountForDuration returns
\* very_short (2-3) when d < 60, short (3-6) when 60 <= d < 1200, medium (5-8)
\* when 1200 <= d < 2400 and long (8-10) when d >= 2400, so that 60, 1200 and
\* 2400 fall in the upper category; 45 s is very_short, 900 s short, 1800 s
\* medium and 3600 s long.
C15_TopicCount ==
    fnOut # None =>
        /\ fnIn < Sec(60) =>
               fnOut = [minTopics |-> 2, maxTopics |-> 3, category |-> "very_short"]
        /\ (Sec(60) <= fnIn /\ fnIn < Sec(1200)) =>
               fnOut = [minTopics |-> 3, maxTopics |-> 6, category |-> "short"]
        /\ (Sec(1200) <= fnIn /\ fnIn < Sec(2400)) =>
               fnOut = [minTopics |-> 5, maxTopics |-> 8, category |-> "medium"]
        /\ Sec(2400) <= fnIn =>
               fnOut = [minTopics |-> 8, maxTopics |-> 10, category |-> "long"]
        /\ fnIn = Sec(45) => fnOut.category = "very_short"
        /\ fnIn = Sec(900) => fnOut.category = "short"
        /\ fnIn = Sec(1800) => fnOut.category = "medium"
        /\ fnIn = Sec(3600) => fnOut.category = "long"

C15_Witness ==
    /\ fnOut # None
    /\ fnIn = Sec(1200)
    /\ fnOut.category = "medium"

\* the texts of the successful chunks from c on, in the order of the chunks,
\* with a blank between two of them
RECURSIVE JoinedFrom(_)
JoinedFrom(c) ==
    IF c >= Len(chunks) THEN << >>
    ELSE IF ~Succeeded(c) THEN JoinedFrom(c + 1)
         ELSE transcriptionResults[c].text
              \o (IF \E d \in DOMAIN outcome : d > c /\ Succeeded(d)
                  THEN <<" ">> \o JoinedFrom(c + 1)
                  ELSE << >>)

\* the segmentation step fails in this step
SegmentationFails ==
    \/ GeminiKeyFail
    \/ SegmentationError
    \/ SegmentationResponse(ContentNotJson)
    \/ SegmentationResponse(ContentNull)

\* the job has returned the transcription alone, with the message
TranscriptionOnly(message) ==
    /\ enhancedResults # None
    /\ enhancedResults.topicAnalysis = Null
    /\ enhancedResults.analysisError = message
    /\ message # Null
    /\ message.chars # ""
    /\ enhancedResults.transcription = JoinedFrom(0)

\* C16: when the gate has passed and the segmentation step fails (the key of
\* the client cannot be read, the request throws, the answer is no JSON or
\* is null) with the fallback enabled, transcribeAudioWithTopics still returns a result:
\* its topicAnalysis is null, its analysisError is the message of the error,
\* which is not empty, and its transcription is the texts of the successful
\* chunks, and of no other chunk, joined in chunk order.
C16_FallbackState ==
    (enableFallback /\ analysisError # Null) =>
        /\ TranscriptionOnly(analysisError)
        /\ phase \in {"uploadTranscription", "cleanup", "returned", "thrown"}
        /\ phase = "returned" =>
               /\ handlerOut.value.topicSegments = Null
               /\ handlerOut.value.segmentationCompleted = FALSE
               /\ handlerOut.value.segmentationError = analysisError
               /\ handlerOut.value.transcription = JoinedFrom(0)

C16_FallbackStep ==
    (enableFallback /\ SegmentationFails) =>
        /\ GatePassed
        /\ TranscriptionOnly(analysisError)'
        /\ handlerOut' = None
        /\ phase' = "uploadTranscription"

C16_SegmentationFallback == []C16_FallbackState /\ [][C16_FallbackStep]_vars

C16_Witness ==
    /\ enableFallback
    /\ phase = "returned"
    /\ analysisError = ConnectionError.message
    /\ handlerOut.value.segmentationError = ConnectionError.message
    /\ \E c \in DOMAIN outcome : outcome[c] = "exhausted"
    /\ Len(handlerOut.value.transcription) >= 5

\* C17: with the fallback enabled, every kind of segmentation failure is
\* treated as a failure: when the request throws, when the answer is no JSON
\* and when the answer is JSON without the segments field, topicAnalysis is
\* null, the message of the error is in analysisError, and the job does not
\* fail.
C17_EveryFailureFallsBack ==
    [][(/\ enableFallback
        /\ \/ SegmentationError
           \/ SegmentationResponse(ContentNotJson)
           \/ SegmentationResponse(ContentNoSegments))
       => /\ phase' = "uploadTranscription"
          /\ handlerOut' = None
          /\ topicAnalysis' = Null
          /\ analysisError' # Null
          /\ enhancedResults'.topicAnalysis = Null
          /\ enhancedResults'.analysisError = analysisError']_vars

\* C18: with the fallback disabled a segmentation failure is fatal for the
\* job: the error leaves transcribeAudioWithTopics and the handler, no result
\* object is returned and nothing is uploaded.
C18_FatalState ==
    (~enableFallback /\ analysisError # Null) =>
        /\ phase = "thrown"
        /\ "thrown" \in DOMAIN handlerOut
        /\ handlerOut.thrown.message = analysisError
        /\ enhancedResults = None
        /\ uploads = << >>

C18_FatalStep ==
    (~enableFallback /\ SegmentationFails) =>
        /\ phase' = "thrown"
        /\ handlerOut'.thrown.message = analysisError'
        /\ enhancedResults' = None
        /\ uploads' = << >>

C18_FallbackDisabled == []C18_FatalState /\ [][C18_FatalStep]_vars

C18_Witness ==
    /\ ~enableFallback
    /\ phase = "thrown"
    /\ GatePassed
    /\ analysisError = SyntaxError.message
    /\ handlerOut.thrown = SyntaxError
    /\ Len(requests) = 1

GateRejected == gate # None /\ gate.failed

\* C19: once the gate has rejected the job nothing is produced: no
\* segmentation request is sent, no transcription and no topics object is
\* uploaded, no result is returned; the only step left is the handler
\* throwing the error, which it does, and the job stays rejected.
C19_RejectedState ==
    GateRejected =>
        /\ phase \in {"failed", "thrown"}
        /\ requests = << >>
        /\ uploads = << >>
        /\ returned = << >>
        /\ enhancedResults = None
        /\ topicAnalysis = Null
        /\ phase = "failed" => handlerOut = None
        /\ phase = "thrown" => "thrown" \in DOMAIN handlerOut

C19_RejectedStep ==
    GateRejected =>
        /\ phase = "failed"
        /\ phase' = "thrown"
        /\ gate' = gate

C19_RejectedIsTerminal ==
    /\ []C19_RejectedState
    /\ [][C19_RejectedStep]_vars
    /\ GateRejected ~> (phase = "thrown")

C19_Witness ==
    /\ GateRejected
    /\ phase = "thrown"
    /\ gate.successfulChunks >= 2
    /\ \E c \in DOMAIN outcome : outcome[c] = "permanent"

Ended == phase \in {"returned", "thrown"}

\* the fields of the object the handler returns and of the object
\* transcribeAudioWithTopics returns
ResultFields ==
    {"transcriptionCompleted", "transcription", "topicSegments", "segmentationCompleted",
     "segmentationError", "transcriptionKey", "topicsKey", "outputKey"}
EnhancedFields == {"transcription", "transcriptionResults", "topicAnalysis", "analysisError"}

\* C20: with chunkSize > 0, concurrentRequests >= 1 and every call that is
\* waited for (read, transcription, sleep, key, segmentation, upload, unlink)
\* returning or throwing, every job ends, and it ends in exactly one way: it
\* returns one complete result object, whose topics may be null, or it throws
\* one error.  Until then it has given nothing out, what
\* transcribeAudioWithTopics returns is complete and is not changed
\* afterwards, and nothing happens after the end.
C20_EndState ==
    /\ ~Ended => handlerOut = None
    /\ phase = "returned" =>
           /\ DOMAIN handlerOut = {"value"}
           /\ DOMAIN handlerOut.value = ResultFields
           /\ handlerOut.value.transcription = JoinedFrom(0)
           /\ GatePassed
           /\ enhancedResults # None
    /\ phase = "thrown" =>
           /\ DOMAIN handlerOut = {"thrown"}
           /\ handlerOut.thrown.message.chars # ""
    /\ enhancedResults # None =>
           /\ DOMAIN enhancedResults = EnhancedFields
           /\ enhancedResults.transcription = JoinedFrom(0)
           /\ enhancedResults.transcriptionResults = returned
           /\ enhancedResults.topicAnalysis = topicAnalysis
           /\ enhancedResults.analysisError = analysisError

C20_EndStep ==
    /\ ~Ended
    /\ enhancedResults # None => enhancedResults' = enhancedResults

C20_JobTerminates ==
    /\ <>Ended
    /\ []C20_EndState
    /\ [][C20_EndStep]_vars

C20_Witness ==
    /\ phase = "returned"
    /\ handlerOut.value.topicSegments = Null
    /\ handlerOut.value.segmentationError # Null
    /\ Len(chunks) >= 3

\* C21: a chunk of fewer than 4096 bytes is never sent to the transcription
\* service: it has no request and no sleep, its promise is fulfilled with
\* null (it is not rejected and it has no failure result), and it ends as
\* dropped.  A chunk of 4096 bytes or more is never dropped: from the fetch
\* it goes to its first request, or to a read error.
C21_SmallState ==
    \A c \in DOMAIN tpc :
        /\ ChunkLength(c) < MinChunkBytes =>
               /\ attempts[c] = 0
               /\ sleeps[c] = 0
               /\ tpc[c] \in {"idle", "fetching", "settled", "done"}
               /\ settled[c] \in {Pending, Fulfilled(Null)}
               /\ outcome[c] \in {"none", "dropped"}
               /\ transcriptionResults[c] = Hole
               /\ \A k \in 1..Len(failedChunks) : failedChunks[k].index # c
        /\ ChunkLength(c) >= MinChunkBytes =>
               /\ settled[c] # Fulfilled(Null)
               /\ outcome[c] # "dropped"

C21_SmallStep ==
    \A c \in DOMAIN tpc :
        (tpc[c] = "fetching" /\ tpc'[c] # "fetching") =>
            IF ChunkLength(c) < MinChunkBytes
            THEN tpc'[c] = "settled" /\ settled'[c] = Fulfilled(Null)
                 /\ attempts'[c] = attempts[c]
            ELSE \/ tpc'[c] = "calling" /\ attempts'[c] = attempts[c] + 1
                 \/ tpc'[c] = "settled" /\ settled'[c] = Rejected

C21_MinimumChunkSize == []C21_SmallState /\ [][C21_SmallStep]_vars

C21_Witness ==
    \E c, d \in DOMAIN tpc :
        /\ ChunkLength(c) = MinChunkBytes
        /\ tpc[c] = "calling"
        /\ attempts[c] = 1
        /\ ChunkLength(d) < MinChunkBytes
        /\ tpc[d] = "settled"
        /\ settled[d] = Fulfilled(Null)

\* C22: calculateSuccessThreshold is non-increasing in the chunk count: for
\* chunk counts t1 < t2, both at least 1, the threshold of t1 is not below
\* the threshold of t2.
C22_ThresholdNonIncreasing ==
    (phase = "threshold" /\ fnOut # None) => ~LessD(fnOut.t1, fnOut.t2)

\* C23: with more than 10 chunks the job passes the gate exactly when at most
\* 3 of its chunks did not succeed, and the threshold is above the floor of
\* 0.6; with any number of chunks, a job with more than 3 chunks that did not
\* succeed fails the gate.
C23_AtMostThreeFailures ==
    Decided =>
        LET t == Len(chunks)
            ok == Successes
        IN  /\ t > 10 =>
                   /\ (phase = "passed") <=> (t - ok <= 3)
                   /\ LessD(D06, gate.requiredThreshold)
            /\ (t >= 1 /\ t - ok > 3) => phase = "failed"

\* C24: whatever invocations of the handler run in a process, one after the
\* other or at the same time, each client is constructed at most once and its
\* key is asked for at most once, and every request is made through a client
\* that has been set.
C24_ClientSingletons ==
    /\ constructed.openai <= 1
    /\ constructed.gemini <= 1
    /\ keyFetches.openai <= 1
    /\ keyFetches.gemini <= 1
    /\ \A call \in clientCalls : call.ready

TerminalOutcomes == {"success", "permanent", "exhausted", "dropped", "readError"}

\* C25: the gate is evaluated only when every planned chunk of every batch
\* has ended (transcribed, failed for good, failed after its retries, dropped,
\* or not read); the segmentation request is sent, and its key asked for, only
\* when the gate has passed; and once the gate is evaluated no chunk is read
\* and no transcription request is sent.
C25_OrderState ==
    /\ gate # None =>
           /\ batchStart >= Len(chunks)
           /\ \A c \in DOMAIN tpc : tpc[c] = "done" /\ outcome[c] \in TerminalOutcomes
    /\ (requests # << >> \/ phase \in {"geminiKey", "segmenting"}) => GatePassed
    /\ phase \in {"start", "batch", "gate"} => gate = None /\ requests = << >>

C25_OrderStep ==
    /\ gate' # None => (tpc' = tpc /\ attempts' = attempts /\ sleeps' = sleeps
                        /\ settled' = settled)
    /\ requests' # requests => (GatePassed /\ gate' = gate)

C25_PhaseOrdering == []C25_OrderState /\ [][C25_OrderStep]_vars

C25_Witness ==
    /\ requests # << >>
    /\ Len(chunks) >= 3
    /\ concurrentRequests = 2
    /\ batchStart = 4

ChunkFailed(c) ==
    \/ outcome[c] \in {"permanent", "exhausted", "readError"}
    \/ tpc[c] = "settled" /\ (settled[c] = Rejected \/ FailedValue(c))

\* C26: a chunk that fails, by a read error, a permanent error of the
\* service or the exhaustion of its retries, throws nothing out of the batch
\* loop: the loop goes on to its end and to the gate, where the chunk counts
\* as a chunk that did not succeed, and the only error the job throws before
\* the segmentation is the error of the gate.
C26_AbsorbedState ==
    /\ phase \in {"batch", "gate"} => handlerOut = None
    /\ gate # None =>
           /\ gate.totalChunks = Len(chunks)
           /\ gate.successfulChunks = Successes
           /\ \A c \in DOMAIN outcome : ChunkFailed(c) => transcriptionResults[c] = Hole
    /\ (phase = "thrown" /\ enhancedResults = None /\ analysisError = Null) =>
           /\ GateRejected
           /\ handlerOut.thrown.message = Str("Transcription failed")

C26_AbsorbedStep ==
    phase = "batch" => (phase' \in {"batch", "gate"} /\ handlerOut' = None)

C26_ChunkErrorsAbsorbed == []C26_AbsorbedState /\ [][C26_AbsorbedStep]_vars

C26_Witness ==
    /\ phase = "thrown"
    /\ GateRejected
    /\ \E c, d, e \in DOMAIN outcome :
           /\ outcome[c] = "readError"
           /\ outcome[d] = "permanent"
           /\ outcome[e] = "exhausted"

\* the results in the slots of the chunks that succeeded, from chunk c on
RECURSIVE SuccessfulResultsFrom(_)
SuccessfulResultsFrom(c) ==
    IF c >= Len(chunks) THEN << >>
    ELSE IF outcome[c] = "success"
         THEN <<transcriptionResults[c]>> \o SuccessfulResultsFrom(c + 1)
         ELSE SuccessfulResultsFrom(c + 1)

Degraded == GatePassed /\ \E c \in DOMAIN outcome : outcome[c] # "success"

\* C27: when the gate passes although some chunk failed or was dropped, the
\* transcription the job returns, and the handler after it, is the texts of
\* the chunks that succeeded, in the order of the chunks, with one blank
\* between two of them, and transcriptionResults holds the results of those
\* chunks and nothing else.
C27_DegradedTranscript ==
    (Degraded /\ enhancedResults # None) =>
        /\ enhancedResults.transcription = JoinedFrom(0)
        /\ enhancedResults.transcriptionResults = SuccessfulResultsFrom(0)
        /\ \A j \in 1..Len(enhancedResults.transcriptionResults) :
               /\ enhancedResults.transcriptionResults[j].success
               /\ outcome[enhancedResults.transcriptionResults[j].index] = "success"
        /\ Len(enhancedResults.transcriptionResults) = Successes
        /\ phase = "returned" => handlerOut.value.transcription = JoinedFrom(0)
        /\ \A k \in 1..Len(uploads) :
               "transcription" \in DOMAIN uploads[k] =>
                   uploads[k].transcription = JoinedFrom(0)

C27_Witness ==
    /\ Degraded
    /\ phase = "returned"
    /\ outcome[0] = "success"
    /\ outcome[1] \in {"permanent", "exhausted"}
    /\ outcome[2] = "success"
    /\ Len(handlerOut.value.transcription) >= 5

\* the segmentation step is over
Segmented ==
    phase \in {"uploadTranscription", "uploadTopics", "cleanup", "returned"}
        \/ (phase = "thrown" /\ GatePassed)

\* C28: a job sends at most one segmentation request: none before the gate
\* and none when the gate throws, one when the gate has passed and the
\* segmentation client is there (none when its key cannot be had), and no
\* second one when the request threw or its answer could not be used.
C28_RequestState ==
    /\ Len(requests) <= 1
    /\ ~GatePassed => requests = << >>
    /\ phase = "segmenting" => Len(requests) = 1 /\ geminiClient
    /\ (Segmented /\ geminiClient) => Len(requests) = 1
    /\ (Segmented /\ ~geminiClient) => requests = << >>
    /\ requests # << >> =>
           requests[1] = SegmentationRequest(getTopicCountForDuration(totalOffset), totalOffset)

C28_RequestStep ==
    /\ requests' # requests =>
           (requests = << >> /\ phase \in {"passed", "geminiKey"} /\ phase' = "segmenting")
    /\ phase = "segmenting" => phase' # "segmenting"

C28_OneSegmentationRequest == []C28_RequestState /\ [][C28_RequestStep]_vars

C28_Witness ==
    /\ Len(requests) = 1
    /\ analysisError = ConnectionError.message
    /\ phase = "returned"

\* C29: a slot of the results array is written at most once, with the result
\* of the chunk of its own index, when the batch of that chunk is collected;
\* a slot that is written is not written again and not emptied, and no other
\* slot changes in that step but those of the chunks of the batch.
C29_SlotState ==
    \A c \in DOMAIN transcriptionResults :
        /\ transcriptionResults[c] # Hole =>
               /\ transcriptionResults[c].index = c
               /\ transcriptionResults[c].success
               /\ outcome[c] = "success"
        /\ (phase \in {"batch", "start"} /\ c >= batchStart) => transcriptionResults[c] = Hole

C29_SlotStep ==
    /\ DOMAIN transcriptionResults' = DOMAIN transcriptionResults
           \/ transcriptionResults = << >>
    /\ \A c \in DOMAIN transcriptionResults :
           /\ transcriptionResults[c] # Hole =>
                  transcriptionResults'[c] = transcriptionResults[c]
           /\ transcriptionResults'[c] # transcriptionResults[c] =>
                  /\ c \in BatchOf(batchStart, concurrentRequests, chunks)
                  /\ settled[c].status = "fulfilled"
                  /\ transcriptionResults'[c] = settled[c].value

C29_DisjointSlots == []C29_SlotState /\ [][C29_SlotStep]_vars

C29_Witness ==
    /\ concurrentRequests = 2
    /\ Len(chunks) >= 3
    /\ phase = "batch"
    /\ transcriptionResults[0] # Hole
    /\ transcriptionResults[1] # Hole
    /\ transcriptionResults[2] = Hole
    /\ tpc[2] = "settled"
    /\ ValueSuccess(settled[2])

\* TRUE iff a job of t chunks with k successes passes the gate
Passes(k, t) == ~LessD(DivD(k, t), calculateSuccessThreshold(t))

\* C30: the error of a rejected job names the number of chunks that
\* succeeded, the number of chunks and the number needed,
\* ceil(totalChunks * requiredThreshold); the number needed is above the
\* number that succeeded, and it is the smallest number of successes with
\* which a job of that many chunks passes the gate.
C30_RequiredCount ==
    GateRejected =>
        LET t == Len(chunks)
        IN  /\ gate.error.successfulChunks = Successes
            /\ gate.error.totalChunks = t
            /\ gate.error.need = CeilD(MulD(t, calculateSuccessThreshold(t)))
            /\ gate.error.need > Successes
            /\ \A k \in 0..t : Passes(k, t) <=> k >= gate.error.need

\* C33: a job never passes the gate with no successful chunk: for every file
\* size, the empty file with its empty plan included, and every outcome of
\* the chunks, a job that passed the gate, and so every job that reaches the
\* reconciliation and the segmentation, has at least one successful chunk.
C33_NoPassWithoutSuccess ==
    GatePassed =>
        /\ Successes >= 1
        /\ gate.successfulChunks >= 1
        /\ Len(returned) >= 1

\* the answer for the successful chunk c is well formed: its segments are in
\* the order of their starts and each lies within [0, reported duration]
WellFormed(c) ==
    "segments" \in DOMAIN transcriptionResults[c] =>
        LET segments == transcriptionResults[c].segments
        IN  /\ \A j \in 1..(Len(segments) - 1) : segments[j].start <= segments[j + 1].start
            /\ \A j \in 1..Len(segments) :
                   /\ 0 <= segments[j].start
                   /\ segments[j].start <= segments[j].end
                   /\ segments[j].end <= ReportedDuration(c)

\* segment j is the last one of its chunk in the reconciled list
LastOfChunk(j) ==
    j = Len(allSegments) \/ allSegments[j + 1].chunkIndex # allSegments[j].chunkIndex

\* C38: when the segments of every successful chunk are in the order of their
\* starts and lie within [0, reported duration] of the chunk, then in the
\* reconciled list the starts never decrease, every segment has start <= end,
\* no segment of a later chunk starts before the end of the last segment of
\* an earlier chunk, and no time is above the total reconciled duration.
C38_TimelineMonotone ==
    (Reconciled /\ \A c \in DOMAIN outcome : Succeeded(c) => WellFormed(c)) =>
        /\ \A j \in 1..(Len(allSegments) - 1) :
               allSegments[j].start <= allSegments[j + 1].start
        /\ \A j \in 1..Len(allSegments) :
               /\ allSegments[j].start <= allSegments[j].end
               /\ allSegments[j].end <= totalOffset
        /\ \A i, j \in 1..Len(allSegments) :
               (allSegments[i].chunkIndex < allSegments[j].chunkIndex /\ LastOfChunk(i)) =>
                   allSegments[i].end <= allSegments[j].start

C38_Witness ==
    /\ Reconciled
    /\ \A c \in DOMAIN outcome : Succeeded(c) => WellFormed(c)
    /\ Len(chunks) = 5
    /\ Len(allSegments) >= 4
    /\ \E c \in DOMAIN outcome : ~Succeeded(c)
    /\ \E i, j \in 1..Len(allSegments) :
           /\ allSegments[i].chunkIndex + 2 <= allSegments[j].chunkIndex
           /\ allSegments[j].start > 0
    /\ totalOffset > Sec(60)

\* an object was uploaded under key
Uploaded(key) == \E j \in 1..Len(uploads) : uploads[j].key = key

\* C39: the topics object is uploaded only after the transcription object
\* was uploaded and only when topicAnalysis is not null; in the result the
\* handler returns topicsKey is not null exactly when a topics object was
\* uploaded, segmentationCompleted is true exactly when topicAnalysis is not
\* null, and transcriptionKey names the uploaded transcription object.
C39_OutputState ==
    /\ \A j \in 1..Len(uploads) :
           uploads[j].key = TopicsKey =>
               /\ topicAnalysis # Null
               /\ \E i \in 1..(j - 1) : uploads[i].key = TranscriptionKey
    /\ phase = "returned" =>
           LET value == handlerOut.value
           IN  /\ value.topicsKey # Null <=> Uploaded(TopicsKey)
               /\ value.topicsKey \in {Null, TopicsKey}
               /\ value.segmentationCompleted <=> topicAnalysis # Null
               /\ \E j \in 1..Len(uploads) :
                      /\ uploads[j].key = value.transcriptionKey
                      /\ uploads[j].transcription = value.transcription

C39_OutputStep ==
    uploads' # uploads =>
        /\ Len(uploads') = Len(uploads) + 1
        /\ SubSeq(uploads', 1, Len(uploads)) = uploads
        /\ uploads'[Len(uploads')].key = TopicsKey =>
               /\ Uploaded(TranscriptionKey)
               /\ topicAnalysis # Null

C39_OutputConsistency == []C39_OutputState /\ [][C39_OutputStep]_vars

C39_Witness ==
    /\ phase = "returned"
    /\ Len(uploads) = 2
    /\ handlerOut.value.topicsKey = TopicsKey
    /\ handlerOut.value.segmentationCompleted
    /\ handlerOut.value.topicSegments = Null
    /\ Len(chunks) >= 2

\* C34: whenever the handler finishes after it downloaded the audio file to
\* its local path, by returning its result or by throwing (the gate rejects
\* the job, an upload fails, the segmentation fails with the fallback
\* disabled), the local audio file has been deleted.
C34_AudioFileDeleted == Ended => audioFile = "deleted"

\* ceil(a / b) of the integers a >= 0 and b > 0
CeilDiv(a, b) == (a + b - 1) \div b

\* C32: for every audio size above 0 getOptimizedChunkConfig gives
\* concurrentRequests = min(5, ceil(sizeBytes / 5 MiB)), which is at least 1,
\* at most 5 and at most the estimated number of chunks; with it the batch
\* loop of the transcription stage moves on by concurrentRequests > 0 chunks
\* in each iteration and ends after ceil(count / concurrentRequests) batches.
C32_ConfigState ==
    (fileSize > 0 /\ phase \in {"configured", "loop", "looped"}) =>
        LET K == fnOut.concurrentRequests
            estimated == CeilDiv(fileSize, OPTIMAL_CHUNK_SIZE)
        IN  /\ K = Min(5, estimated)
            /\ 1 <= K
            /\ K <= 5
            /\ K <= estimated
            /\ phase # "configured" =>
                   /\ concurrentRequests = K
                   /\ Len(chunks) = estimated
                   /\ batchStart % K = 0
                   /\ batchStart \div K <= CeilDiv(Len(chunks), K)
            /\ phase = "looped" => batchStart \div K = CeilDiv(Len(chunks), K)

C32_ConfigStep ==
    (fileSize > 0 /\ phase = "loop") =>
        \/ /\ phase' = "loop"
           /\ concurrentRequests > 0
           /\ batchStart' = batchStart + concurrentRequests
        \/ /\ phase' = "looped"
           /\ batchStart' = batchStart

C32_ConcurrencyBound ==
    /\ []C32_ConfigState
    /\ [][C32_ConfigStep]_vars
    /\ <>(phase = "looped")

C32_Witness ==
    /\ phase = "looped"
    /\ Len(chunks) = 7
    /\ concurrentRequests = 5
    /\ batchStart = 10

\* the calls of saveToDynamoDB that returned
ReturnedCalls == {p \in DOMAIN save : save[p].pc = "returned"}

\* C36: when calls of saveToDynamoDB for one parentId and orderIndex run at
\* a time, then however their checks and their conditional puts interleave
\* each call that returns has put its own item under a contentId under
\* which no other call has put one: no item is replaced and no two calls
\* return the same contentId.
C36_SlotState ==
    /\ \A p \in ReturnedCalls :
           /\ save[p].result \in DOMAIN table
           /\ table[save[p].result].writer = p
           /\ table[save[p].result].contentId = save[p].result
    /\ \A p, q \in ReturnedCalls : p # q => save[p].result # save[q].result
    /\ \A id \in DOMAIN table :
           table[id].writer # 0 =>
               /\ table[id].writer \in ReturnedCalls
               /\ save[table[id].writer].result = id

C36_SlotStep ==
    \A id \in DOMAIN table : id \in DOMAIN table' /\ table'[id] = table[id]

C36_OwnSlot == []C36_SlotState /\ [][C36_SlotStep]_vars

C36_Witness ==
    /\ Len(save) >= 2
    /\ ReturnedCalls = DOMAIN save
    /\ ContentId(ParentId, FirstIndex) \in DOMAIN table
    /\ table[ContentId(ParentId, FirstIndex)].writer = 0
    /\ \E p \in DOMAIN save : ~save[p].adjusted /\ save[p].orderIndex > FirstIndex + 1

\* the states whose function the execution has invoked
Invoked == {wf.visited[k] : k \in DOMAIN wf.visited}
StageSet == {Stages[k] : k \in DOMAIN Stages}

\* C35: in every execution of the state machine a stage that fails with the
\* retries of the failing retrier used is followed at once by HandleError,
\* and NotifySuccess is not invoked in that execution; NotifySuccess is
\* invoked only after DownloadAndExtract, TranscribeChunks,
\* AnalyzeGetKeywords and GenerateHtml succeeded, in that order; HandleError
\* and NotifySuccess are never both invoked.
C35_NotifyState ==
    /\ wf.caught # None =>
           /\ wf.caught.state \in StageSet
           /\ "HandleError" \in Invoked
           /\ "NotifySuccess" \notin Invoked
    /\ "NotifySuccess" \in Invoked =>
           /\ Len(wf.succeeded) >= Len(Stages)
           /\ SubSeq(wf.succeeded, 1, Len(Stages)) = Stages
    /\ ~("HandleError" \in Invoked /\ "NotifySuccess" \in Invoked)

C35_NotifyStep ==
    (wf.state \in StageSet /\ wf' # wf) =>
        \/ /\ wf'.succeeded = Append(wf.succeeded, wf.state)
           /\ wf'.state = NextOf(wf.state)
           /\ wf'.visited = Append(wf.visited, NextOf(wf.state))
        \/ /\ wf.state = "AnalyzeGetKeywords"
           /\ wf' = [wf EXCEPT !.step = "saving"]
        \/ \E r \in DOMAIN wf.retried :
              /\ wf.retried[r] < MaxAttempts(wf.state)
              /\ wf' = [wf EXCEPT !.retried[r] = @ + 1, !.step = "invoke"]
        \/ \E r \in DOMAIN wf.retried :
              /\ wf.retried[r] = MaxAttempts(wf.state)
              /\ wf'.state = "HandleError"
              /\ wf'.visited = Append(wf.visited, "HandleError")
              /\ wf'.succeeded = wf.succeeded
              /\ wf'.caught # None
              /\ wf'.caught.state = wf.state

C35_Notification == []C35_NotifyState /\ [][C35_NotifyStep]_vars

\* GenerateHtml failed after the three stages before it succeeded, and the
\* notification of HandleError was sent
C35_Witness ==
    /\ wf.state = "Succeeded"
    /\ wf.caught # None
    /\ wf.caught.state = "GenerateHtml"
    /\ wf.succeeded = <<"DownloadAndExtract", "TranscribeChunks", "AnalyzeGetKeywords",
                        "HandleError">>

\* the transcription stage returned without topics after a segmentation
\* that failed: topicsKey null and segmentationError set
DegradedNoTopics ==
    /\ "TranscribeChunks" \in {wf.succeeded[k] : k \in DOMAIN wf.succeeded}
    /\ "topicsKey" \in DOMAIN wf.input
    /\ wf.input.topicsKey = Null
    /\ wf.input.segmentationError # Null

\* C31: when the transcription stage returns with topicAnalysis null
\* (topicsKey null, segmentationError set), the execution is not routed to
\* HandleError because the topics are missing: if AnalyzeGetKeywords is
\* caught, the error is one of a call that failed, not the missing topics key.
C31_DegradedNotRouted ==
    (DegradedNoTopics /\ wf.caught # None /\ wf.caught.state = "AnalyzeGetKeywords") =>
        wf.caught.error # MissingInput

\* the records the execution has put in the content table
Written == {id \in DOMAIN table : table[id].writer # 0}

\* C37: when the execution has ended, the invocations of AnalyzeGetKeywords,
\* the retried ones among them, have put at most one record for the video in
\* the content table.
C37_OneRecord ==
    wf.state \in {"Succeeded", "Failed"} => Cardinality(Written) <= 1

====
